---- MODULE Spec2Model ----
(***************************************************************************)
(* A model of the Solaris matchmaking automation: the session poller       *)
(* (class Servers, src/api/auth.js), the orchestrator (handleNewMatch,     *)
(* src/unnamed/part_000), the process supervisor (class Launcher) and the  *)
(* matchmaking client (class MatchmakingHandler), both in                  *)
(* src/unnamed/part_002.                                                   *)
(*                                                                         *)
(* The program runs on one JavaScript event loop.  One action of the model *)
(* is one task of that loop: a timer callback, the completion of a network *)
(* or subprocess operation, or an event of a socket or a child process,    *)
(* together with every synchronous statement and every promise             *)
(* continuation that runs before the loop takes its next task.             *)
(***************************************************************************)
EXTENDS Integers, Sequences, FiniteSets, TLC

(***************************************************************************)
(* Bounds of the model.                                                    *)
(***************************************************************************)
\* Longest session list of one list-sessions response in SpecSelect.
MaxLen == 3
\* Longest session list of one list-sessions response in Spec.
MaxPollLen == 2
\* List-sessions requests that may be in flight at once.
MaxInFlight == 2
\* handleNewMatch invocations that may be running at once.
MaxHandlers == 2
\* One-shot resume timers that may be pending at once.
MaxTimers == 2

\* getSessionInfo invocations that may be running at once.
MaxRes == 2
\* startMatchmaking calls of one run of SpecConn or SpecRes.
MaxAttempts == 2
\* launchGame calls of one run.
MaxLaunches == 2
\* handleNewMatch invocations in the orchestrator specification.
MaxMatches == 1
\* killGameProcess calls from outside that may complete one right after the other.
MaxKills == 2
\* Frames handled as text in one run of SpecIngest.
MaxFrames == 2

(***************************************************************************)
(* Session descriptors.  NoId stands for an absent or empty sessionId (a   *)
(* falsy value in JavaScript).                                             *)
(***************************************************************************)
NoId == 0
Ids == {1, 2}
Region == "EU"
Regions == {"EU", "NA"}
Sessions ==
  [sessionId : Ids \cup {NoId}, region : Regions, started : BOOLEAN, players : {0, 1}]

\* The sessions of the configured region with no players: the ones the
\* poll responses of Spec are made of.
PollSessions == {s \in Sessions : s.region = Region /\ s.players = 0}

\* The lists of at most n session descriptors of S.
ListsUpTo(S, n) == UNION {[1..k -> S] : k \in 0..n}

\* A list-sessions response: the request failed ("error"), the body is not
\* an array ("nodata"), or the body is an array of session descriptors.
Responses(S, n) ==
  {[kind |-> "error", data |-> <<>>], [kind |-> "nodata", data |-> <<>>]}
    \cup {[kind |-> "list", data |-> l] : l \in ListsUpTo(S, n)}

VARIABLES
  \* class Servers
  processedSessions,    \* Set of sessionIds already handed to the callback
  lastSessionId,        \* sessionId last handed to the callback, NoId if none
  isMonitoring,         \* the flag isMonitoring
  intervals,            \* number of live poll interval timers
  monitoringInterval,   \* the handle: "null", or "live"/"cleared" as its timer is
  onNewServerCallback,  \* TRUE once a callback is registered
  inflight,             \* list-sessions requests sent and not yet answered
  resumeTimers,         \* pending setTimeout(resumeMonitoring, 5000)
  delayTimers,          \* pending timers of resumeMonitoringAfterDelay
  \* main and handleNewMatch
  mainpc,               \* "start" before main() has run, then "running"
  hpc,                  \* position of each handleNewMatch invocation
  lk,                   \* the launchGame call of each invocation, 0 if none
  proc,                 \* the process: "running", "stopping" (SIGINT handler waiting), "exit0", "exit1"
  \* history of handleNewMatch
  failedAt,             \* the stage at which each invocation entered its catch block
  dlFailed,             \* invocations whose prepareGameFiles returned although its download failed
  compOk,               \* what the catch block of each invocation left behind
  \* history of the poller
  triggered,            \* callbacks per sessionId since the last clear
  reoffered,            \* processed sessionIds listed again since the last clear
  lastAnswer,           \* how the list-sessions request answered last ended
  \* checkServers as a function (SpecSelect)
  selResp, selProcessed, selResult, selDone,
  \* class MatchmakingHandler
  ws,                   \* this.ws: "null", or the socket "connecting"/"open"/"dead"
  isConnected,
  ticketId, matchId, sessionId,   \* 0 for null
  ticketData,           \* TRUE while ticketData and websocketURL are set
  accountId,            \* TRUE once accountId is set
  accessToken,          \* the access token stored by startMatchmaking, 0 for null
  connectionAttempts,
  sessionPosted,
  closePending,         \* a 'close' event of an ended socket is still to come
  retryTimers,          \* pending 2 s timers of the socket error handler
  connTimeout,          \* the 15 s timer of the awaited connect promise is armed
  wsFirst,              \* this.ws is the socket the awaited connect promise watches
  mmCall,               \* position of the startMatchmaking call
  res,                  \* position of each getSessionInfo invocation
  \* history of the matchmaking client
  attempt,              \* startMatchmaking calls so far
  fresh,                \* this attempt began with no socket and no resolution running
  trig,                 \* resolution-triggering messages of this attempt (up to 2)
  posts,                \* backend POSTs sent by resolutions of this attempt
  anyFail,              \* a lookup or POST of this attempt failed
  extClose,             \* the orchestrator closed the connection in this attempt
  chainOpens,           \* sockets opened since the last connect() or open
  overlap,              \* a connect() began while a retry timer was pending
  exhausted,            \* the error handler gave up since the last connect() or open
  opened,               \* a socket of this attempt has opened
  \* history of handleWebSocketMessage
  rawIn,                \* the text of the last frame handled
  parsed,               \* the messages parsed from it, in dispatch order
  anomalies,            \* the parse errors logged for it
  frames,               \* frames handled as text so far
  \* class Launcher
  gameProcess,          \* this.gameProcess: a PID, 0 for null
  processManagerProcess,  \* this.processManagerProcess: the helper of a launch, 0 for null
  autoTerminateTimeout, \* this.autoTerminateTimeout: the watchdog of a launch, 0 for null
  processPending,
  lpc,                  \* position of each launchGame call
  helper,               \* each launch's helper: "none", "alive", "dying", "gone"
  game,                 \* each launch's game process: "none", "alive", "dead"
  sawPid,               \* the helper's stdout so far matches PID:\s*(\d+)
  sawResult,            \* the helper's RESULT line has been delivered
  tmo,                  \* the 40 s timer of each launch is armed
  prom,                 \* each launch's processPromise
  clk,                  \* timers of each launch that have run out: 0..3
  wd,                   \* the 30 s watchdog timer of each launch is armed
  kill,                 \* position of each caller's killGameProcess invocation
  \* history of the launcher
  killRequested,        \* killGameProcess was called from outside since the last launch
  kills,                \* calls from outside completed since the last launcher event
  commit                \* the PID a signal of each launch committed first, 0 if none

pollVars ==
  <<processedSessions, lastSessionId, isMonitoring, intervals,
    monitoringInterval, onNewServerCallback, inflight, resumeTimers, delayTimers>>
orchVars == <<mainpc, hpc, lk>>
orchHist == <<failedAt, compOk>>
pollHist == <<triggered, reoffered, lastAnswer>>
selVars == <<selResp, selProcessed, selResult, selDone>>
mmVars ==
  <<ws, isConnected, ticketId, matchId, sessionId, ticketData, accountId, accessToken,
    connectionAttempts, sessionPosted, closePending, retryTimers, connTimeout,
    wsFirst, mmCall, res>>
mmHist ==
  <<attempt, fresh, trig, posts, anyFail, extClose, chainOpens, overlap,
    exhausted, opened>>
launchVars ==
  <<gameProcess, processManagerProcess, autoTerminateTimeout, processPending,
    lpc, helper, game, sawPid, sawResult, tmo, prom, clk, wd, kill>>
launchHist == <<killRequested, kills, commit>>
ingHist == <<rawIn, parsed, anomalies, frames>>
vars ==
  <<pollVars, orchVars, orchHist, pollHist, selVars, mmVars, mmHist, launchVars,
    launchHist, ingHist, proc, dlFailed>>

\* What the actions of one component leave alone.
notPoll == <<selVars, mmVars, mmHist, launchVars, launchHist, ingHist, proc, dlFailed>>
notSel ==
  <<pollVars, orchVars, orchHist, pollHist, mmVars, mmHist, launchVars, launchHist,
    ingHist, proc, dlFailed>>
notClient ==
  <<pollVars, orchVars, orchHist, pollHist, selVars, launchVars, launchHist, proc,
    dlFailed>>
notMM == <<notClient, ingHist>>
notLaunch ==
  <<pollVars, orchVars, orchHist, pollHist, selVars, mmVars, mmHist, ingHist, proc, dlFailed>>

Handlers == 1..MaxHandlers

(***************************************************************************)
(* class Servers: checkServers                                             *)
(***************************************************************************)
\* The filter of notStartedSessions.
NotStarted(server, processed) ==
  /\ server.region = Region
  /\ server.sessionId # NoId
  /\ server.sessionId \notin processed
  /\ server.started = FALSE

\* The filter of newInitializingSessions.
Initializing(server, processed) ==
  /\ server.region = Region
  /\ server.sessionId # NoId
  /\ server.sessionId \notin processed
  /\ server.started = TRUE
  /\ server.players = 0

\* checkServers swapped: the initializing tier is tried first.
CheckServersSwapped(resp, processed) ==
  IF resp.kind # "list" \/ Len(resp.data) = 0 THEN <<>>
  ELSE LET ini == SelectSeq(resp.data, LAMBDA s : Initializing(s, processed))
           nst == SelectSeq(resp.data, LAMBDA s : NotStarted(s, processed))
       IN  IF Len(ini) > 0 THEN <<ini[1]>>
           ELSE IF Len(nst) > 0 THEN <<nst[1]>>
           ELSE <<>>

\* checkServers answering a failed request with the session listed last.
CheckServersStale(resp, processed) ==
  IF resp.kind = "error"
  THEN <<[sessionId |-> 1, region |-> Region, started |-> FALSE, players |-> 0]>>
  ELSE IF resp.kind = "nodata" \/ Len(resp.data) = 0 THEN <<>>
  ELSE LET notStartedSessions ==
             SelectSeq(resp.data, LAMBDA s : NotStarted(s, processed))
           newInitializingSessions ==
             SelectSeq(resp.data, LAMBDA s : Initializing(s, processed))
       IN  IF Len(notStartedSessions) > 0 THEN <<notStartedSessions[1]>>
           ELSE IF Len(newInitializingSessions) > 0
                THEN <<newInitializingSessions[1]>>
           ELSE <<>>

\* checkServers: the session it returns as a list of one, <<>> for null.
CheckServers(resp, processed) ==
  IF resp.kind = "error" THEN <<>>
  ELSE IF resp.kind = "nodata" \/ Len(resp.data) = 0 THEN <<>>
  ELSE LET notStartedSessions ==
             SelectSeq(resp.data, LAMBDA s : NotStarted(s, processed))
           newInitializingSessions ==
             SelectSeq(resp.data, LAMBDA s : Initializing(s, processed))
       IN  IF Len(notStartedSessions) > 0 THEN <<notStartedSessions[1]>>
           ELSE IF Len(newInitializingSessions) > 0
                THEN <<newInitializingSessions[1]>>
           ELSE <<>>

(***************************************************************************)
(* SpecSelect: checkServers applied to every response and processed set    *)
(* within the bounds.                                                      *)
(***************************************************************************)
SelectCall ==
  /\ ~selDone
  /\ selResult' = CheckServers(selResp, selProcessed)
  /\ selDone' = TRUE
  /\ UNCHANGED <<selResp, selProcessed, notSel>>

(***************************************************************************)
(* class Servers: monitoring.  The three fields the monitoring methods     *)
(* write are passed as a record, so that a method calling another is the   *)
(* composition of the two.                                                 *)
(***************************************************************************)
Mon == [mon |-> isMonitoring, ints |-> intervals, handle |-> monitoringInterval,
        cb |-> onNewServerCallback]

SetMon(m) ==
  /\ isMonitoring' = m.mon
  /\ intervals' = m.ints
  /\ monitoringInterval' = m.handle
  /\ onNewServerCallback' = m.cb

\* startMonitoring(callback) without its test of isMonitoring.
startMonitoringUnguarded(m) ==
  [mon |-> TRUE, ints |-> m.ints + 1, handle |-> "live", cb |-> TRUE]

\* startMonitoring(callback): a no-op while monitoring, else registers the
\* callback and creates the interval.
startMonitoring(m) ==
  IF m.mon THEN m
  ELSE [mon |-> TRUE, ints |-> m.ints + 1, handle |-> "live", cb |-> TRUE]

\* stopMonitoring without its clearInterval.
stopMonitoringKeepsInterval(m) ==
  IF ~m.mon THEN m ELSE [m EXCEPT !.mon = FALSE]

\* stopMonitoring: clearInterval(this.monitoringInterval) ends the timer the
\* handle names, if that timer is still live.
stopMonitoring(m) ==
  IF ~m.mon THEN m
  ELSE [m EXCEPT !.mon = FALSE,
                 !.ints = IF m.handle = "live" THEN m.ints - 1 ELSE m.ints,
                 !.handle = IF m.handle = "null" THEN "null" ELSE "cleared"]

\* resumeMonitoring.
resumeMonitoring(m) ==
  IF m.mon THEN m
  ELSE IF m.cb THEN startMonitoring(m) ELSE m

\* The timer callback of resumeMonitoringAfterDelay.
resumeAfterDelayFire(m) ==
  IF m.cb THEN startMonitoring(m) ELSE m

\* processedSessions.add dropped.
MarkProcessedDropped(processed, id) == processed

\* processedSessions.add(server.sessionId).
MarkProcessed(processed, id) == processed \cup {id}

\* The sessionIds of a response that are listed again although processed.
Reoffered(resp, processed) ==
  IF resp.kind # "list" THEN {}
  ELSE {resp.data[i].sessionId : i \in
         {j \in 1..Len(resp.data) :
            /\ resp.data[j].sessionId \in processed
            /\ resp.data[j].region = Region
            /\ (resp.data[j].started = FALSE \/ resp.data[j].players = 0)}}

\* main(): the startup up to the first poll interval.
MainStart ==
  /\ mainpc = "start"
  /\ mainpc' = "running"
  /\ processedSessions' = {}
  /\ SetMon(startMonitoring(Mon))
  /\ UNCHANGED <<lastSessionId, inflight, resumeTimers, delayTimers, hpc, lk,
                 orchHist, pollHist, notPoll>>

\* The 30-minute interval of main(): clearProcessedSessions.
ClearTick ==
  /\ mainpc = "running"
  /\ processedSessions' = {}
  /\ triggered' = [i \in Ids |-> 0]
  /\ reoffered' = {}
  /\ UNCHANGED lastAnswer
  /\ UNCHANGED <<lastSessionId, isMonitoring, intervals, monitoringInterval,
                 onNewServerCallback, inflight, resumeTimers, delayTimers,
                 orchVars, orchHist, notPoll>>

\* A tick of the poll interval: checkServers sends its request.
PollTick ==
  /\ intervals > 0
  /\ inflight < MaxInFlight
  /\ inflight' = inflight + 1
  /\ UNCHANGED <<processedSessions, lastSessionId, isMonitoring, intervals,
                 monitoringInterval, onNewServerCallback, resumeTimers,
                 delayTimers, orchVars, orchHist, pollHist, notPoll>>

\* How a list-sessions request ended: the request failed ("error"), the
\* body is not an array ("nodata"), the array is empty ("empty"), or it
\* holds sessions ("list").
AnswerKind(resp) ==
  IF resp.kind = "list" /\ Len(resp.data) = 0 THEN "empty" ELSE resp.kind

\* The answer resp to one list-sessions request: the rest of checkServers
\* and of the interval callback, up to the first suspension of the
\* callback, which is in prepareGameFiles when handleNewMatch is called.
PollAnswer(resp) ==
  /\ inflight > 0
  /\ LET server == CheckServers(resp, processedSessions) IN
       /\ inflight' = inflight - 1
       /\ lastAnswer' = AnswerKind(resp)
       /\ reoffered' = reoffered \cup Reoffered(resp, processedSessions)
       /\ IF server # <<>> /\ server[1].sessionId \notin processedSessions
          THEN /\ processedSessions' =
                    MarkProcessed(processedSessions, server[1].sessionId)
               /\ lastSessionId' = server[1].sessionId
               /\ SetMon(stopMonitoring(Mon))
               /\ IF onNewServerCallback
                  THEN /\ \E h \in Handlers :
                            /\ hpc[h] = "idle"
                            /\ \A g \in Handlers : g < h => hpc[g] # "idle"
                            /\ hpc' = [hpc EXCEPT ![h] = "prepare"]
                            /\ failedAt' = [failedAt EXCEPT ![h] = "none"]
                            /\ compOk' = [compOk EXCEPT ![h] = FALSE]
                       /\ triggered' =
                            [triggered EXCEPT ![server[1].sessionId] = @ + 1]
                  ELSE UNCHANGED <<hpc, orchHist, triggered>>
          ELSE UNCHANGED <<processedSessions, lastSessionId, isMonitoring,
                           intervals, monitoringInterval, onNewServerCallback,
                           hpc, orchHist, triggered>>
  /\ UNCHANGED <<resumeTimers, delayTimers, mainpc, lk, notPoll>>

\* One list-sessions request is answered.
PollResponse == \E resp \in Responses(PollSessions, MaxPollLen) : PollAnswer(resp)

(***************************************************************************)
(* handleNewMatch as the poller sees it: an invocation runs its stages and *)
(* leaves through its completion path or through its compensation path.    *)
(* The stages themselves are the subject of SpecOrch.                      *)
(***************************************************************************)
\* The completion path: setTimeout(() => servers.resumeMonitoring(), 5000).
HandlerComplete(h) ==
  /\ hpc[h] # "idle"
  /\ resumeTimers + delayTimers < MaxTimers
  /\ hpc' = [hpc EXCEPT ![h] = "idle"]
  /\ resumeTimers' = resumeTimers + 1
  /\ UNCHANGED <<processedSessions, lastSessionId, isMonitoring, intervals,
                 monitoringInterval, onNewServerCallback, inflight,
                 delayTimers, mainpc, lk, orchHist, pollHist, notPoll>>

\* The compensation path: servers.resumeMonitoringAfterDelay(5000).
HandlerCompensate(h) ==
  /\ hpc[h] # "idle"
  /\ resumeTimers + delayTimers < MaxTimers
  /\ hpc' = [hpc EXCEPT ![h] = "idle"]
  /\ SetMon(IF isMonitoring THEN stopMonitoring(Mon) ELSE Mon)
  /\ delayTimers' = delayTimers + 1
  /\ UNCHANGED <<processedSessions, lastSessionId, inflight, resumeTimers,
                 mainpc, lk, orchHist, pollHist, notPoll>>

\* The 5 s timer of the completion path fires.
ResumeTimerFire ==
  /\ resumeTimers > 0
  /\ resumeTimers' = resumeTimers - 1
  /\ SetMon(resumeMonitoring(Mon))
  /\ UNCHANGED <<processedSessions, lastSessionId, inflight, delayTimers,
                 orchVars, orchHist, pollHist, notPoll>>

\* The timer of resumeMonitoringAfterDelay fires.
DelayTimerFire ==
  /\ delayTimers > 0
  /\ delayTimers' = delayTimers - 1
  /\ SetMon(resumeAfterDelayFire(Mon))
  /\ UNCHANGED <<processedSessions, lastSessionId, inflight, resumeTimers,
                 orchVars, orchHist, pollHist, notPoll>>

(***************************************************************************)
(* class MatchmakingHandler.  At most one socket is live at a time, and it *)
(* is this.ws: a socket leaves this.ws only through terminate().  An ended *)
(* socket still delivers its 'close' event.                                *)
(***************************************************************************)
maxConnectionAttempts == 3

Resolutions == 1..MaxRes

\* The fields closeConnection and the connect write, as a record.
Cli == [ws |-> ws, con |-> isConnected, tid |-> ticketId, mid |-> matchId,
        sid |-> sessionId, ticket |-> ticketData, att |-> connectionAttempts,
        closeP |-> closePending]

SetCli(c) ==
  /\ ws' = c.ws
  /\ isConnected' = c.con
  /\ ticketId' = c.tid
  /\ matchId' = c.mid
  /\ sessionId' = c.sid
  /\ ticketData' = c.ticket
  /\ connectionAttempts' = c.att
  /\ closePending' = c.closeP

\* ws.terminate(): a live socket ends and owes its 'close' event.
Terminated(c) == c.closeP \/ c.ws \in {"connecting", "open"}

\* closeConnection() without the reset of ticketData.
closeConnectionKeepsTicket(c) ==
  IF c.ws = "null" THEN c
  ELSE [c EXCEPT !.ws = "null", !.closeP = Terminated(c), !.con = FALSE,
                 !.tid = 0, !.mid = 0, !.sid = 0]

\* closeConnection().
closeConnection(c) ==
  IF c.ws = "null" THEN c
  ELSE [c EXCEPT !.ws = "null", !.closeP = Terminated(c), !.con = FALSE,
                 !.tid = 0, !.mid = 0, !.sid = 0, !.ticket = FALSE]

\* connectToMatchmakingWebsocket() from its first statement to the new
\* WebSocket; the caller has checked websocketURL and ticketData.
openSocket(c) ==
  [c EXCEPT !.closeP = Terminated(c), !.att = c.att + 1, !.ws = "connecting"]

\* The retry test of the error handler with <= for <.
ShouldRetryOffByOne(attempts) == attempts <= maxConnectionAttempts

\* The retry test of the socket error handler.
ShouldRetry(attempts) == attempts < maxConnectionAttempts

\* The messages a frame may hold.  tid, mid and sid are the payload's
\* ticketId, matchId and sessionId, 0 when absent.  "StatusNoPayload" and
\* "PlayNoPayload" are messages without a payload object.
Msg(kind, tid, mid, sid) == [kind |-> kind, tid |-> tid, mid |-> mid, sid |-> sid]
Messages ==
  {Msg(k, 0, 0, 0) :
     k \in {"Connecting", "Waiting", "Unknown", "StatusNoPayload", "PlayNoPayload"}}
  \cup {Msg("Queued", 1, 0, 0)}
  \cup {Msg("SessionAssignment", 0, 1, x) : x \in {0, 2}}
  \cup {Msg("SessionAssignment", 0, 0, 0)}
  \cup {Msg("Play", 0, 1, 2), Msg("Play", 0, 0, 0)}

\* A frame holds one message or two.
Frames == [{1} -> Messages] \cup [{1, 2} -> Messages]

\* The access token of the authData handed to the n-th startMatchmaking:
\* every attempt mints its own.
TokenOf(n) == n

\* The Authorization value of a request: its scheme as written and the
\* token it carries.  NoAuth stands for no request.
NoAuth == [scheme |-> "none", token |-> 0]

\* getAuthHeaders().Authorization: `Bearer ${this.accessToken}`, or with no
\* access token the launcher token of the auth module (written -1).
getAuthHeaders(token) ==
  IF token = 0 THEN [scheme |-> "Bearer", token |-> -1]
  ELSE [scheme |-> "Bearer", token |-> token]

\* getFortniteHeaders().Authorization: `bearer ${this.accessToken}`.
getFortniteHeaders(token) == [scheme |-> "bearer", token |-> token]

\* A getSessionInfo call past its lookups: their headers are dropped.
Leave(rec, pc) == [rec EXCEPT !.pc = pc, !.auth = NoAuth, !.fauth = NoAuth]

\* getSessionInfo up to its request: TRUE when the lookup is sent.
SendsLookup(sid) == sid # 0 /\ accountId

\* if (!this.sessionPosted) this.getSessionInfo().
WantsResolution(posted) == ~posted

\* The dispatch loop with its last branch taken for Play only by elimination:
\* a message of unknown name is handled as a Play.
DispatchUnknownAsPlay(d, m) ==
  IF d.threw THEN d
  ELSE IF m.kind \in {"StatusNoPayload", "PlayNoPayload"}
       THEN [d EXCEPT !.threw = TRUE]
  ELSE IF m.kind = "Queued"
       THEN IF d.tid = 0 /\ m.tid # 0 THEN [d EXCEPT !.tid = m.tid] ELSE d
  ELSE IF m.kind = "SessionAssignment"
       THEN IF m.mid # 0
            THEN LET sid == IF m.sid # 0 THEN m.sid ELSE m.mid IN
                 [d EXCEPT !.mid = m.mid, !.sid = sid, !.trigs = @ + 1,
                           !.spawn = IF WantsResolution(sessionPosted) /\ SendsLookup(sid)
                                     THEN @ + 1 ELSE @]
            ELSE d
  ELSE IF m.kind \in {"Play", "Unknown"}
       THEN [d EXCEPT !.mid = m.mid, !.sid = m.sid,
                      !.trigs = IF m.sid # 0 THEN @ + 1 ELSE @,
                      !.spawn = IF WantsResolution(sessionPosted) /\ SendsLookup(m.sid)
                                THEN @ + 1 ELSE @]
  ELSE d

\* One message of the dispatch loop.  d carries ticketId, matchId and
\* sessionId, the lookups sent so far (spawn), the resolution-triggering
\* messages seen (trigs) and whether a TypeError has ended the loop.
Dispatch(d, m) ==
  IF d.threw THEN d
  ELSE IF m.kind \in {"StatusNoPayload", "PlayNoPayload"}
       THEN [d EXCEPT !.threw = TRUE]
  ELSE IF m.kind = "Queued"
       THEN IF d.tid = 0 /\ m.tid # 0 THEN [d EXCEPT !.tid = m.tid] ELSE d
  ELSE IF m.kind = "SessionAssignment"
       THEN IF m.mid # 0
            THEN LET sid == IF m.sid # 0 THEN m.sid ELSE m.mid IN
                 [d EXCEPT !.mid = m.mid, !.sid = sid, !.trigs = @ + 1,
                           !.spawn = IF WantsResolution(sessionPosted) /\ SendsLookup(sid)
                                     THEN @ + 1 ELSE @]
            ELSE d
  ELSE IF m.kind = "Play"
       THEN [d EXCEPT !.mid = m.mid, !.sid = m.sid,
                      !.trigs = IF m.sid # 0 THEN @ + 1 ELSE @,
                      !.spawn = IF WantsResolution(sessionPosted) /\ SendsLookup(m.sid)
                                THEN @ + 1 ELSE @]
  ELSE d

RECURSIVE DispatchAll(_, _)
DispatchAll(d, frame) ==
  IF frame = <<>> THEN d ELSE DispatchAll(Dispatch(d, Head(frame)), Tail(frame))

Min(a, b) == IF a < b THEN a ELSE b

\* The first n idle getSessionInfo slots.
FreeSlots == {r \in Resolutions : res[r].pc = "idle"}
FirstFree(n) == {r \in FreeSlots : Cardinality({q \in FreeSlots : q < r}) < n}

mmCallVars == <<connTimeout, wsFirst, mmCall>>
cliVars ==
  <<ws, isConnected, ticketId, matchId, sessionId, ticketData, connectionAttempts,
    closePending>>
monVars == <<isMonitoring, intervals, monitoringInterval, onNewServerCallback>>
attHist == <<attempt, fresh>>
resHist == <<trig, posts, anyFail>>

\* startMatchmaking(authData) up to the ticket request, as the matchmaking
\* client sees it.
StartMm ==
  /\ mmCall \in {"idle", "returned"}
  /\ attempt < MaxAttempts
  /\ attempt' = attempt + 1
  /\ fresh' = (ws = "null" /\ \A r \in Resolutions : res[r].pc = "idle")
  /\ trig' = 0 /\ posts' = 0
  /\ anyFail' = FALSE /\ extClose' = FALSE
  /\ opened' = FALSE
  /\ res' = [r \in Resolutions |-> [res[r] EXCEPT !.cur = FALSE]]
  /\ \E valid \in BOOLEAN :
       IF valid
       THEN accountId' = TRUE /\ accessToken' = TokenOf(attempt + 1) /\ mmCall' = "ticket"
       ELSE accountId' = accountId /\ accessToken' = accessToken /\ mmCall' = "threw"
  /\ UNCHANGED <<ws, isConnected, ticketId, matchId, sessionId, ticketData,
                 connectionAttempts, sessionPosted, closePending, retryTimers,
                 connTimeout, wsFirst, chainOpens, overlap, exhausted>>

\* startMatchmaking(authData) called from outside.
StartMatchmaking == StartMm /\ UNCHANGED notMM

\* The ticket request is answered: the rest of requestMatchmakingTicket
\* and, on success, connectToMatchmakingWebsocket up to its promise.
TicketResponse ==
  /\ mmCall = "ticket"
  /\ \E ok \in BOOLEAN :
       IF ok
       THEN /\ SetCli(openSocket([Cli EXCEPT !.ticket = TRUE]))
            /\ mmCall' = "connect"
            /\ connTimeout' = TRUE
            /\ wsFirst' = TRUE
            /\ chainOpens' = 1
            /\ overlap' = (overlap \/ retryTimers > 0)
            /\ exhausted' = FALSE
       ELSE /\ mmCall' = "threw"
            /\ UNCHANGED <<ws, isConnected, ticketId, matchId, sessionId,
                           ticketData, connectionAttempts, closePending,
                           connTimeout, wsFirst, chainOpens, overlap, exhausted>>
  /\ UNCHANGED <<accountId, accessToken, sessionPosted, retryTimers, res, attHist, resHist,
                 extClose, opened, notMM>>

\* The socket opens: the 'open' handlers.
WsOpen ==
  /\ ws = "connecting"
  /\ ws' = "open"
  /\ isConnected' = TRUE
  /\ connectionAttempts' = 0
  /\ chainOpens' = 0
  /\ opened' = TRUE
  /\ exhausted' = FALSE
  /\ IF wsFirst /\ mmCall = "connect"
     THEN mmCall' = "returned" /\ connTimeout' = FALSE
     ELSE UNCHANGED <<mmCall, connTimeout>>
  /\ UNCHANGED <<ticketId, matchId, sessionId, ticketData, accountId, accessToken,
                 sessionPosted, closePending, retryTimers, wsFirst, res,
                 attHist, resHist, extClose, overlap, notMM>>

\* A transport error on the socket: the 'error' handlers.
WsError ==
  /\ ws \in {"connecting", "open"}
  /\ ws' = "dead"
  /\ closePending' = TRUE
  /\ IF ShouldRetry(connectionAttempts)
     THEN retryTimers' = retryTimers + 1 /\ UNCHANGED isConnected
     ELSE isConnected' = FALSE /\ UNCHANGED retryTimers
  /\ exhausted' = (exhausted \/ ~ShouldRetry(connectionAttempts))
  /\ IF wsFirst /\ mmCall = "connect"
     THEN /\ connTimeout' = FALSE
          /\ mmCall' = IF connectionAttempts >= maxConnectionAttempts
                       THEN "threw" ELSE mmCall
     ELSE UNCHANGED <<mmCall, connTimeout>>
  /\ UNCHANGED <<ticketId, matchId, sessionId, ticketData, accountId, accessToken,
                 connectionAttempts, sessionPosted, wsFirst, res, attHist,
                 resHist, extClose, chainOpens, overlap, opened, notMM>>

\* The retry callback asking for a new ticket instead of reconnecting with
\* the one at hand.
RetryTimerFireNewTicket ==
  /\ retryTimers > 0
  /\ retryTimers' = retryTimers - 1
  /\ mmCall' = IF ticketData THEN "ticket" ELSE mmCall
  /\ UNCHANGED <<ws, isConnected, ticketId, matchId, sessionId, ticketData,
                 connectionAttempts, closePending, wsFirst, chainOpens>>
  /\ UNCHANGED <<accountId, accessToken, sessionPosted, connTimeout, res, attHist,
                 resHist, extClose, overlap, exhausted, opened, notMM>>

\* The 2 s timer of the error handler fires: connectToMatchmakingWebsocket
\* again, its promise dropped.
RetryTimerFire ==
  /\ retryTimers > 0
  /\ retryTimers' = retryTimers - 1
  /\ IF ticketData
     THEN /\ SetCli(openSocket(Cli))
          /\ wsFirst' = FALSE
          /\ chainOpens' = chainOpens + 1
     ELSE UNCHANGED <<ws, isConnected, ticketId, matchId, sessionId, ticketData,
                      connectionAttempts, closePending, wsFirst, chainOpens>>
  /\ UNCHANGED <<accountId, accessToken, sessionPosted, connTimeout, mmCall, res, attHist,
                 resHist, extClose, overlap, exhausted, opened, notMM>>

\* The 15 s timer of the awaited connect promise fires.
ConnectTimeout ==
  /\ connTimeout
  /\ connTimeout' = FALSE
  /\ mmCall' = "threw"
  /\ UNCHANGED <<ws, isConnected, ticketId, matchId, sessionId, ticketData,
                 accountId, accessToken, connectionAttempts, sessionPosted, closePending,
                 retryTimers, wsFirst, res, mmHist, notMM>>

\* The server ends an open socket without an error.
WsServerClose ==
  /\ ws = "open"
  /\ ws' = "dead"
  /\ closePending' = TRUE
  /\ UNCHANGED <<isConnected, ticketId, matchId, sessionId, ticketData,
                 accountId, accessToken, connectionAttempts, sessionPosted, retryTimers,
                 mmCallVars, res, mmHist, notMM>>

\* The 'close' event of an ended socket.
WsCloseEvent ==
  /\ closePending
  /\ closePending' = FALSE
  /\ isConnected' = FALSE
  /\ UNCHANGED <<ws, ticketId, matchId, sessionId, ticketData, accountId, accessToken,
                 connectionAttempts, sessionPosted, retryTimers, mmCallVars,
                 res, mmHist, notMM>>

(***************************************************************************)
(* The text of a frame, as handleWebSocketMessage parses it.  The text is  *)
(* a sequence of tokens: an opening brace, a closing brace, or a run of    *)
(* characters other than braces.  "N" is the text "name":...[,"payload":]  *)
(* of a message, "F" the fields of its payload object, "X" the rest of a   *)
(* token that was cut off.                                                 *)
(***************************************************************************)
Tok(t, m) == [t |-> t, m |-> m]
NoMsg == Msg("none", 0, 0, 0)
Lb == Tok("L", NoMsg)
Rb == Tok("R", NoMsg)
Junk == Tok("X", NoMsg)

HasPayload(m) == m.kind \notin {"StatusNoPayload", "PlayNoPayload"}

\* JSON.stringify of a message, as the service sends it.
Text(m) ==
  IF HasPayload(m) THEN <<Lb, Tok("N", m), Lb, Tok("F", m), Rb, Rb>>
  ELSE <<Lb, Tok("N", m), Rb>>

\* JSON.parse(text) does not throw: text is one object, a message with or
\* without its payload object, a bare payload object, or {}.
IsJson(text) ==
  \/ /\ Len(text) = 6
     /\ text[1] = Lb /\ text[2].t = "N" /\ HasPayload(text[2].m) /\ text[3] = Lb
     /\ text[4] = Tok("F", text[2].m) /\ text[5] = Rb /\ text[6] = Rb
  \/ /\ Len(text) = 3
     /\ text[1] = Lb /\ text[3] = Rb
     /\ \/ text[2].t = "N" /\ ~HasPayload(text[2].m)
        \/ text[2].t = "F"
  \/ text = <<Lb, Rb>>

\* What JSON.parse(text) returns: an object with no name is dispatched as
\* a message of unknown type.
JsonParse(text) ==
  IF Len(text) >= 3 /\ text[2].t = "N" THEN text[2].m ELSE Msg("Unknown", 0, 0, 0)

\* [^{}]* from position i: the position of the next brace, or past the end.
RECURSIVE SkipPlain(_, _)
SkipPlain(text, i) ==
  IF i > Len(text) \/ text[i].t \in {"L", "R"} THEN i ELSE SkipPlain(text, i + 1)

\* {[^{}]*} at position i: the position after it, 0 if there is no match.
GroupEnd(text, i) ==
  IF i > Len(text) \/ text[i].t # "L" THEN 0
  ELSE LET j == SkipPlain(text, i + 1) IN
       IF j <= Len(text) /\ text[j].t = "R" THEN j + 1 ELSE 0

\* (?:{[^{}]*})* from position i: the position after the last group.
RECURSIVE SkipGroups(_, _)
SkipGroups(text, i) ==
  IF GroupEnd(text, i) = 0 THEN i ELSE SkipGroups(text, GroupEnd(text, i))

\* /{[^{}]*(?:{[^{}]*})*[^{}]*}/ at position i: the position of the closing
\* brace of the match, 0 if there is none.
MatchEnd(text, i) ==
  IF text[i].t # "L" THEN 0
  ELSE LET j == SkipPlain(text, SkipGroups(text, SkipPlain(text, i + 1))) IN
       IF j <= Len(text) /\ text[j].t = "R" THEN j ELSE 0

\* rawData.match(jsonPattern) from position i: the matches from left to
\* right, none overlapping another.
RECURSIVE Matches(_, _)
Matches(text, i) ==
  IF i > Len(text) THEN <<>>
  ELSE IF MatchEnd(text, i) = 0 THEN Matches(text, i + 1)
  ELSE <<SubSeq(text, i, MatchEnd(text, i))>> \o Matches(text, MatchEnd(text, i) + 1)

\* The parsing part without the report of a frame that yields no message.
IngestQuiet(text) ==
  IF IsJson(text) THEN [msgs |-> <<JsonParse(text)>>, anomalies |-> 0]
  ELSE LET ms == Matches(text, 1)
           good == SelectSeq(ms, IsJson)
           msgs == [i \in 1..Len(good) |-> JsonParse(good[i])]
       IN  [msgs |-> msgs, anomalies |-> Len(ms) - Len(good)]

\* The parsing part of handleWebSocketMessage: the messages to dispatch and
\* the number of parse errors logged.
Ingest(text) ==
  IF IsJson(text) THEN [msgs |-> <<JsonParse(text)>>, anomalies |-> 0]
  ELSE LET ms == Matches(text, 1)
           good == SelectSeq(ms, IsJson)
           msgs == [i \in 1..Len(good) |-> JsonParse(good[i])]
       IN  [msgs |-> msgs,
            anomalies |-> (Len(ms) - Len(good)) + (IF msgs = <<>> THEN 1 ELSE 0)]

\* The messages the frames of SpecIngest are made of.
WireMessages ==
  {Msg("Queued", 1, 0, 0), Msg("SessionAssignment", 0, 1, 2), Msg("Play", 0, 1, 2),
   Msg("Unknown", 0, 0, 0), Msg("PlayNoPayload", 0, 0, 0)}

\* An object cut off: a proper part of its text, up to a token boundary or,
\* for the cut in its first token, into the token.
Cuts ==
  UNION {{SubSeq(Text(m), 1, n) : n \in 1..(Len(Text(m)) - 1)} : m \in WireMessages}
  \cup {<<Lb, Junk>>}

\* The messages that arrive one to a frame: every message of Messages,
\* and a Play whose payload has a matchId but no sessionId.
SingleMessages == Messages \cup {Msg("Play", 0, 1, 0)}

\* The text of a frame: one object or two, the last one possibly cut off,
\* or no object at all.
RawFrames ==
  LET texts == {Text(m) : m \in WireMessages} IN
  texts \cup {a \o b : a \in texts, b \in texts \cup Cuts} \cup Cuts \cup {<<Junk>>}
    \cup {Text(m) : m \in SingleMessages}

\* The dispatch loop of handleWebSocketMessage over the messages of a
\* frame, with every getSessionInfo it calls up to the lookup request.
DeliverMm(frame) ==
  LET d == DispatchAll([tid |-> ticketId, mid |-> matchId, sid |-> sessionId,
                        spawn |-> 0, trigs |-> 0, threw |-> FALSE], frame)
  IN  /\ Cardinality(FreeSlots) >= d.spawn
      /\ ticketId' = d.tid
      /\ matchId' = d.mid
      /\ sessionId' = d.sid
      /\ res' = [r \in Resolutions |->
                  IF r \in FirstFree(d.spawn)
                  THEN [pc |-> "lookup", cur |-> TRUE,
                        auth |-> getFortniteHeaders(accessToken), fauth |-> NoAuth]
                  ELSE res[r]]
      /\ trig' = Min(2, trig + d.trigs)
      /\ UNCHANGED <<ws, isConnected, ticketData, accountId, accessToken, connectionAttempts,
                     sessionPosted, closePending, retryTimers, mmCallVars,
                     attHist, posts, anyFail, extClose, chainOpens, overlap,
                     exhausted, opened>>

\* A frame arrives on the open socket, given by the messages it holds.
WsMessage ==
  /\ ws = "open"
  /\ \E frame \in Frames : DeliverMm(frame)
  /\ UNCHANGED notMM

\* A frame arrives on the open socket, given by its text:
\* handleWebSocketMessage from the parse on.
WsFrame ==
  /\ ws = "open"
  /\ frames < MaxFrames
  /\ frames' = frames + 1
  /\ \E text \in RawFrames :
       LET in == Ingest(text) IN
       /\ DeliverMm(in.msgs)
       /\ rawIn' = text
       /\ parsed' = in.msgs
       /\ anomalies' = in.anomalies
  /\ UNCHANGED notClient

\* After a successful lookup: postServerInfoToBackend up to its request, or,
\* with no sessionId left, past it to closeConnection and the process query.
AfterLookup(r) ==
  IF sessionId # 0
  THEN /\ res' = [res EXCEPT ![r] = Leave(@, "post")]
       /\ posts' = IF res[r].cur THEN posts + 1 ELSE posts
       /\ UNCHANGED <<ws, isConnected, ticketId, matchId, sessionId, ticketData,
                      connectionAttempts, closePending>>
  ELSE /\ res' = [res EXCEPT ![r] = Leave(@, "isrun")]
       /\ SetCli(closeConnection(Cli))
       /\ UNCHANGED posts

\* The answers to a session lookup: status 200 with a body, status 401,
\* or any other failure (another status, no body, no response at all).
LookupOutcomes == {"ok", "401", "error"}

\* The catch block of getSessionInfo falling back on every failure that
\* carries a response or not.
LookupAnswerAnyFailure(r, outcome) ==
  /\ res[r].pc = "lookup"
  /\ CASE outcome = "ok" ->
            AfterLookup(r) /\ UNCHANGED anyFail
       [] outcome = "401" ->
            /\ res' = [res EXCEPT ![r].pc = "fallback",
                                ![r].fauth = getFortniteHeaders(accessToken)]
            /\ UNCHANGED <<ws, isConnected, ticketId, matchId, sessionId,
                           ticketData, connectionAttempts, closePending, posts,
                           anyFail>>
       [] outcome = "error" ->
            /\ res' = [res EXCEPT ![r].pc = "fallback",
                                ![r].fauth = getFortniteHeaders(accessToken)]
            /\ anyFail' = (anyFail \/ res[r].cur)
            /\ UNCHANGED <<ws, isConnected, ticketId, matchId, sessionId,
                           ticketData, connectionAttempts, closePending, posts>>
  /\ UNCHANGED <<accountId, accessToken, sessionPosted, retryTimers, mmCallVars, attHist, trig,
                 extClose, chainOpens, overlap, exhausted, opened, notMM>>

\* getSessionInfo from the answer to its lookup on: the success path up to
\* the POST, the fallback request after a 401, or the end (return null).
LookupAnswer(r, outcome) ==
  /\ res[r].pc = "lookup"
  /\ CASE outcome = "ok" ->
            AfterLookup(r) /\ UNCHANGED anyFail
       [] outcome = "401" ->
            /\ res' = [res EXCEPT ![r].pc = "fallback",
                                ![r].fauth = getFortniteHeaders(accessToken)]
            /\ UNCHANGED <<ws, isConnected, ticketId, matchId, sessionId,
                           ticketData, connectionAttempts, closePending, posts,
                           anyFail>>
       [] outcome = "error" ->
            /\ res' = [res EXCEPT ![r] = Leave(@, "idle")]
            /\ anyFail' = (anyFail \/ res[r].cur)
            /\ UNCHANGED <<ws, isConnected, ticketId, matchId, sessionId,
                           ticketData, connectionAttempts, closePending, posts>>
  /\ UNCHANGED <<accountId, accessToken, sessionPosted, retryTimers, mmCallVars, attHist, trig,
                 extClose, chainOpens, overlap, exhausted, opened, notMM>>

\* The primary session lookup is answered.
LookupDone(r) == \E outcome \in LookupOutcomes : LookupAnswer(r, outcome)

\* getSessionInfoWithFortniteToken from the answer to its lookup on: the
\* success path up to the POST, or the rethrow that getSessionInfo catches.
FallbackAnswer(r, ok) ==
  /\ res[r].pc = "fallback"
  /\ IF ok THEN AfterLookup(r) /\ UNCHANGED anyFail
     ELSE /\ res' = [res EXCEPT ![r] = Leave(@, "idle")]
          /\ anyFail' = (anyFail \/ res[r].cur)
          /\ UNCHANGED <<ws, isConnected, ticketId, matchId, sessionId,
                         ticketData, connectionAttempts, closePending, posts>>
  /\ UNCHANGED <<accountId, accessToken, sessionPosted, retryTimers, mmCallVars, attHist, trig,
                 extClose, chainOpens, overlap, exhausted, opened, notMM>>

\* The fallback lookup of getSessionInfoWithFortniteToken is answered.
FallbackDone(r) == \E ok \in BOOLEAN : FallbackAnswer(r, ok)

\* The answer to the backend POST: with a failed POST getSessionInfo ends
\* there, the socket left open and the process query not made.
PostAnswerFailureEnds(r, ok) ==
  /\ res[r].pc = "post"
  /\ sessionPosted' = (sessionPosted \/ ok)
  /\ anyFail' = (anyFail \/ (res[r].cur /\ ~ok))
  /\ IF ok
     THEN /\ res' = [res EXCEPT ![r] = Leave(@, "isrun")]
          /\ SetCli(closeConnection(Cli))
     ELSE /\ res' = [res EXCEPT ![r] = Leave(@, "idle")]
          /\ UNCHANGED cliVars
  /\ UNCHANGED <<accountId, accessToken, retryTimers, mmCallVars, attHist, trig, posts,
                 extClose, chainOpens, overlap, exhausted, opened, notMM>>

\* The backend POST is answered with status 200 (ok) or fails: the rest of
\* postServerInfoToBackend, then closeConnection and the process query of
\* getSessionInfo.
PostAnswer(r, ok) ==
  /\ res[r].pc = "post"
  /\ sessionPosted' = (sessionPosted \/ ok)
  /\ anyFail' = (anyFail \/ (res[r].cur /\ ~ok))
  /\ res' = [res EXCEPT ![r] = Leave(@, "isrun")]
  /\ SetCli(closeConnection(Cli))
  /\ UNCHANGED <<accountId, accessToken, retryTimers, mmCallVars, attHist, trig, posts,
                 extClose, chainOpens, overlap, exhausted, opened, notMM>>

\* The backend POST is answered.
PostDone(r) == \E ok \in BOOLEAN : PostAnswer(r, ok)

\* launcher.isGameRunning() is answered; killGameProcess is called if the
\* game runs.
IsRunningDone(r) ==
  /\ res[r].pc = "isrun"
  /\ \E running \in BOOLEAN :
       res' = [res EXCEPT ![r].pc = IF running THEN "kill" ELSE "idle"]
  /\ UNCHANGED <<ws, isConnected, ticketId, matchId, sessionId, ticketData,
                 accountId, accessToken, connectionAttempts, sessionPosted, closePending,
                 retryTimers, mmCallVars, mmHist, notMM>>

\* launcher.killGameProcess() returns to getSessionInfo.
KillDone(r) ==
  /\ res[r].pc = "kill"
  /\ res' = [res EXCEPT ![r] = Leave(@, "idle")]
  /\ UNCHANGED <<ws, isConnected, ticketId, matchId, sessionId, ticketData,
                 accountId, accessToken, connectionAttempts, sessionPosted, closePending,
                 retryTimers, mmCallVars, mmHist, notMM>>

\* handleNewMatch's compensation after startMatchmaking threw:
\* matchmaking.closeConnection().
Compensate ==
  /\ mmCall = "threw"
  /\ mmCall' = "idle"
  /\ extClose' = TRUE
  /\ SetCli(closeConnection(Cli))
  /\ UNCHANGED <<accountId, accessToken, sessionPosted, retryTimers, connTimeout, wsFirst,
                 res, attHist, resHist, chainOpens, overlap, exhausted, opened,
                 notMM>>

\* The compensation of an attempt that failed before it reached
\* startMatchmaking: closeConnection() on whatever an earlier attempt left.
EarlyCompensate ==
  /\ mmCall \in {"idle", "returned"}
  /\ attempt > 0
  /\ extClose' = TRUE
  /\ SetCli(closeConnection(Cli))
  /\ UNCHANGED <<accountId, accessToken, sessionPosted, retryTimers, mmCallVars, res,
                 attHist, resHist, chainOpens, overlap, exhausted, opened, notMM>>

\* closeConnection() called while the socket is being connected or retried:
\* by getSessionInfo, or by the compensation of another invocation.
CloseCall ==
  /\ attempt > 0
  /\ SetCli(closeConnection(Cli))
  /\ UNCHANGED <<accountId, accessToken, sessionPosted, retryTimers, mmCallVars, res,
                 mmHist, notMM>>

(***************************************************************************)
(* class Launcher.  The game process a helper starts has the PID of the    *)
(* helper's launch.  Every launch has its own helper, stdout buffer,       *)
(* 40 s timer and processPromise; the four fields of the Launcher object   *)
(* are shared by all launches.  The state is passed as a record, so that a *)
(* method calling another is the composition of the two.                   *)
(***************************************************************************)
Launches == 1..MaxLaunches
Killers == {"wd", "ext", "orch"}

La == [gp |-> gameProcess, pm |-> processManagerProcess,
       at |-> autoTerminateTimeout, pend |-> processPending, lpc |-> lpc,
       helper |-> helper, game |-> game, sawPid |-> sawPid,
       sawResult |-> sawResult, tmo |-> tmo, prom |-> prom, clk |-> clk,
       wd |-> wd, kill |-> kill, commit |-> commit]

SetLa(l) ==
  /\ gameProcess' = l.gp
  /\ processManagerProcess' = l.pm
  /\ autoTerminateTimeout' = l.at
  /\ processPending' = l.pend
  /\ lpc' = l.lpc
  /\ helper' = l.helper
  /\ game' = l.game
  /\ sawPid' = l.sawPid
  /\ sawResult' = l.sawResult
  /\ tmo' = l.tmo
  /\ prom' = l.prom
  /\ clk' = l.clk
  /\ wd' = l.wd
  /\ kill' = l.kill
  /\ commit' = l.commit

\* A signal of launch k writes PID pid to this.gameProcess.
Commit(l, k, pid) ==
  [l EXCEPT !.gp = pid, !.commit[k] = IF @ = 0 THEN pid ELSE @]

\* resolve() or reject() of the processPromise of launch k, with the return
\* of launchGame when the call is waiting for the promise.
Settle(l, k, outcome) ==
  IF l.prom[k] # "pending" THEN l
  ELSE [l EXCEPT !.prom[k] = outcome,
                 !.lpc[k] = IF @ # "await" THEN @
                            ELSE IF outcome = "resolved" THEN "returned"
                            ELSE "threw"]

\* child.kill(): a running helper ends and owes its 'exit' event.
KillHelper(l) ==
  IF l.pm = 0 THEN l
  ELSE [l EXCEPT !.helper[l.pm] = IF @ = "alive" THEN "dying" ELSE @, !.pm = 0]

\* clearTimeout(this.autoTerminateTimeout) and the reset of the handle.
ClearWatchdog(l) ==
  IF l.at = 0 THEN l ELSE [l EXCEPT !.wd[l.at] = FALSE, !.at = 0]

\* killGameProcess() with the watchdog left armed.
KillRestKeepsWatchdog(l) ==
  [KillHelper([l EXCEPT !.gp = 0]) EXCEPT !.pend = FALSE]

\* killGameProcess() from this.gameProcess = null to its end.
KillRest(l) ==
  [ClearWatchdog(KillHelper([l EXCEPT !.gp = 0])) EXCEPT !.pend = FALSE]

\* killGameProcess() called by c: up to the taskkill of the tracked PID, or,
\* with no PID tracked, to its end.
killGameProcess(l, c) ==
  IF l.gp # 0
  THEN [l EXCEPT !.kill[c] = [pc |-> "taskkill", pid |-> l.gp]]
  ELSE KillRest(l)

\* The taskkill of c's killGameProcess is answered: the process of that PID
\* has ended, and killGameProcess runs to its end.
KillAnswered(l, c) ==
  KillRest([l EXCEPT !.game[l.kill[c].pid] = IF @ = "alive" THEN "dead" ELSE @,
                     !.kill[c] = [pc |-> "idle", pid |-> 0]])

\* The callback of the 30 s watchdog timer up to its first suspension.
Watchdog(l) ==
  IF l.gp # 0 THEN killGameProcess(l, "wd") ELSE KillHelper(l)

\* launchGame(exchangeCode) of launch k up to the write of the options file.
LaunchBegin(l, k) == [l EXCEPT !.lpc[k] = "write"]

\* launchGame after the options file is written: the old watchdog is
\* cleared, the helper spawned, both timers armed, the 5 s wait begun.
LaunchSpawn(l, k) ==
  [ClearWatchdog(l) EXCEPT !.pend = TRUE, !.prom[k] = "pending",
                           !.tmo[k] = TRUE, !.pm = k, !.helper[k] = "alive",
                           !.at = k, !.wd[k] = TRUE, !.lpc[k] = "wait"]

\* The timers of an earlier launch run out before the same timers of a
\* later one.
TimerOrder(k) ==
  \A j \in Launches : (j < k /\ helper[j] # "none") => clk[j] > clk[k]

\* launchGame(k) is called from outside: by the orchestrator, one call
\* after the other.
LaunchCall(k) ==
  /\ lpc[k] = "idle"
  /\ \A j \in Launches : j < k => lpc[j] \in {"returned", "threw"}
  /\ SetLa(LaunchBegin(La, k))
  /\ killRequested' = FALSE
  /\ kills' = 0
  /\ UNCHANGED notLaunch

\* fs.writeFile of the options file is answered.
WriteDone(k) ==
  /\ lpc[k] = "write"
  /\ \E ok \in BOOLEAN :
       SetLa(IF ok THEN LaunchSpawn(La, k) ELSE [La EXCEPT !.lpc[k] = "threw"])
  /\ kills' = 0
  /\ UNCHANGED <<killRequested, notLaunch>>

\* The helper starts the game process.
GameSpawn(k) ==
  /\ helper[k] = "alive" /\ game[k] = "none"
  /\ game' = [game EXCEPT ![k] = "alive"]
  /\ UNCHANGED <<gameProcess, processManagerProcess, autoTerminateTimeout,
                 processPending, lpc, helper, sawPid, sawResult, tmo, prom, clk,
                 wd, kill, commit, killRequested, notLaunch>>
  /\ kills' = 0

\* The game process ends by itself.
GameExit(k) ==
  /\ game[k] = "alive"
  /\ game' = [game EXCEPT ![k] = "dead"]
  /\ UNCHANGED <<gameProcess, processManagerProcess, autoTerminateTimeout,
                 processPending, lpc, helper, sawPid, sawResult, tmo, prom, clk,
                 wd, kill, commit, killRequested, notLaunch>>
  /\ kills' = 0

\* The helper's stdout delivers its RESULT line with the clientPid.
StdoutResult(k) ==
  /\ helper[k] = "alive" /\ game[k] # "none" /\ ~sawResult[k]
  /\ SetLa(Settle(Commit([La EXCEPT !.sawResult[k] = TRUE, !.tmo[k] = FALSE], k, k),
                  k, "resolved"))
  /\ kills' = 0
  /\ UNCHANGED <<killRequested, notLaunch>>

\* The helper's stdout delivers a free-form line that names the PID.
StdoutPid(k) ==
  /\ helper[k] = "alive" /\ game[k] # "none" /\ ~sawPid[k]
  /\ sawPid' = [sawPid EXCEPT ![k] = TRUE]
  /\ UNCHANGED <<gameProcess, processManagerProcess, autoTerminateTimeout,
                 processPending, lpc, helper, game, sawResult, tmo, prom, clk, wd,
                 kill, commit, killRequested, notLaunch>>
  /\ kills' = 0

\* The 'exit' handler of the helper of launch k.
OnExit(l, k) ==
  LET l1 ==
        IF l.pend /\ l.gp # 0
        THEN [Settle([l EXCEPT !.tmo[k] = FALSE], k, "resolved") EXCEPT !.pend = FALSE]
        ELSE IF l.pend /\ l.sawPid[k]
        THEN [Settle(Commit([l EXCEPT !.tmo[k] = FALSE], k, k), k, "resolved")
                EXCEPT !.pend = FALSE]
        ELSE IF l.pend /\ l.clk[k] >= 1
        THEN [Settle([l EXCEPT !.tmo[k] = FALSE], k, "rejected") EXCEPT !.pend = FALSE]
        ELSE l
  IN  [l1 EXCEPT !.pm = 0]

\* The helper of launch k has ended: its 'exit' event.
HelperExit(k) ==
  /\ helper[k] \in {"alive", "dying"}
  /\ SetLa(OnExit([La EXCEPT !.helper[k] = "gone"], k))
  /\ kills' = 0
  /\ UNCHANGED <<killRequested, notLaunch>>

\* The helper of launch k could not be started: its 'error' event.
HelperError(k) ==
  /\ helper[k] = "alive" /\ game[k] = "none" /\ ~sawPid[k]
  /\ SetLa([Settle([La EXCEPT !.helper[k] = "gone", !.tmo[k] = FALSE], k, "rejected")
              EXCEPT !.pend = FALSE, !.pm = 0])
  /\ kills' = 0
  /\ UNCHANGED <<killRequested, notLaunch>>

\* The 5 s wait of launch k is over: launchGame returns the tracked PID or
\* calls isGameRunning, which queries the process list by image name.
Tick5(k) ==
  /\ lpc[k] = "wait" /\ clk[k] = 0 /\ TimerOrder(k)
  /\ SetLa([La EXCEPT !.clk[k] = 1,
                      !.lpc[k] = IF gameProcess # 0 THEN "returned" ELSE "query"])
  /\ kills' = 0
  /\ UNCHANGED <<killRequested, notLaunch>>

\* The process query of launchGame is answered with the PID of a running
\* game process, or with none: the rest of isGameRunning and of launchGame.
QueryDone(k) ==
  /\ lpc[k] = "query"
  /\ \E found \in {0} \cup {j \in Launches : game[j] = "alive"} :
       SetLa(IF found # 0
             THEN Commit([La EXCEPT !.lpc[k] = "returned"], k, found)
             ELSE [La EXCEPT !.lpc[k] = IF prom[k] = "resolved" THEN "returned"
                                        ELSE IF prom[k] = "rejected" THEN "threw"
                                        ELSE "await"])
  /\ kills' = 0
  /\ UNCHANGED <<killRequested, notLaunch>>

\* 30 s after the spawn of launch k: its watchdog timer, if still armed,
\* runs its callback.  The process query of the launch, a local command sent
\* 25 s earlier, has been answered.
Tick30(k) ==
  /\ helper[k] # "none" /\ clk[k] = 1 /\ TimerOrder(k)
  /\ lpc[k] # "query"
  /\ (wd[k] /\ gameProcess # 0) => kill["wd"].pc = "idle"
  /\ SetLa(IF wd[k] THEN Watchdog([La EXCEPT !.clk[k] = 2, !.wd[k] = FALSE])
           ELSE [La EXCEPT !.clk[k] = 2])
  /\ kills' = 0
  /\ UNCHANGED <<killRequested, notLaunch>>

\* The 40 s timer of launch k running out without a rejection.
Tick40Silent(k) ==
  /\ helper[k] # "none" /\ clk[k] = 2 /\ TimerOrder(k)
  /\ SetLa([La EXCEPT !.clk[k] = 3, !.tmo[k] = FALSE])
  /\ kills' = 0
  /\ UNCHANGED <<killRequested, notLaunch>>

\* 40 s after the spawn of launch k: its timeout, if still armed, rejects
\* the processPromise.
Tick40(k) ==
  /\ helper[k] # "none" /\ clk[k] = 2 /\ TimerOrder(k)
  /\ SetLa(IF tmo[k]
           THEN Settle([La EXCEPT !.clk[k] = 3, !.tmo[k] = FALSE], k, "rejected")
           ELSE [La EXCEPT !.clk[k] = 3])
  /\ kills' = 0
  /\ UNCHANGED <<killRequested, notLaunch>>

\* The taskkill of the watchdog's killGameProcess is answered: the rest of
\* killGameProcess and of the watchdog callback.
WatchdogKillDone ==
  /\ kill["wd"].pc = "taskkill"
  /\ SetLa(KillHelper(KillAnswered(La, "wd")))
  /\ kills' = 0
  /\ UNCHANGED <<killRequested, notLaunch>>

\* killGameProcess() is called from outside the launcher.
ExtKill ==
  /\ kill["ext"].pc = "idle"
  /\ kills < MaxKills
  /\ \E k \in Launches : lpc[k] # "idle"
  /\ SetLa(killGameProcess(La, "ext"))
  /\ killRequested' = TRUE
  /\ kills' = IF gameProcess # 0 THEN 0 ELSE kills + 1
  /\ UNCHANGED notLaunch

\* The taskkill of that call is answered.
ExtKillDone ==
  /\ kill["ext"].pc = "taskkill"
  /\ SetLa(KillAnswered(La, "ext"))
  /\ kills' = 1
  /\ UNCHANGED <<killRequested, notLaunch>>

(***************************************************************************)
(* handleNewMatch, stage by stage.  A stage that returns or throws hands   *)
(* over to the continuation of handleNewMatch, which runs before the event *)
(* loop takes its next task (HandoffPending).                              *)
(***************************************************************************)
\* What the catch block leaves alone in every case.
catchFrame ==
  <<accountId, accessToken, sessionPosted, retryTimers, connTimeout, wsFirst, res, attHist,
    resHist, chainOpens, overlap, exhausted, opened, processedSessions,
    lastSessionId, inflight, resumeTimers, mainpc, lk, pollHist, selVars, ingHist, proc, dlFailed>>

\* The catch block after killGameProcess: closeConnection() and
\* resumeMonitoringAfterDelay(5000); handleNewMatch returns.
CatchRest(h, l) ==
  /\ SetLa(l)
  /\ SetCli(closeConnection(Cli))
  /\ extClose' = TRUE
  /\ SetMon(IF isMonitoring THEN stopMonitoring(Mon) ELSE Mon)
  /\ delayTimers' = delayTimers + 1
  /\ hpc' = [hpc EXCEPT ![h] = "idle"]
  /\ compOk' = [compOk EXCEPT ![h] =
                  /\ l.gp = 0 /\ l.pm = 0 /\ l.at = 0 /\ ~l.pend
                  /\ closeConnection(Cli).ws = "null"]

\* The catch block of handleNewMatch, entered from stage st with the
\* launcher in state l and the startMatchmaking call in position call.
Catch(h, st, l, call) ==
  LET l1 == killGameProcess(l, "orch") IN
  /\ killRequested' = TRUE
  /\ kills' = 0
  /\ failedAt' = [failedAt EXCEPT ![h] = st]
  /\ mmCall' = call
  /\ UNCHANGED catchFrame
  /\ IF l1.kill["orch"].pc = "taskkill"
     THEN /\ SetLa(l1)
          /\ hpc' = [hpc EXCEPT ![h] = "killing"]
          /\ UNCHANGED <<cliVars, extClose, monVars, delayTimers, compOk>>
     ELSE CatchRest(h, l1)

\* The taskkill of the catch block's killGameProcess is answered.
CatchKillDone(h) ==
  /\ hpc[h] = "killing" /\ kill["orch"].pc = "taskkill"
  /\ CatchRest(h, KillAnswered(La, "orch"))
  /\ UNCHANGED <<mmCall, launchHist, failedAt, catchFrame>>

\* What the SIGINT handler and the startup check leave alone.
sigFrame ==
  <<accountId, accessToken, sessionPosted, retryTimers, connTimeout, wsFirst, mmCall, res,
    attHist, resHist, chainOpens, overlap, exhausted, opened, processedSessions,
    lastSessionId, inflight, resumeTimers, delayTimers, mainpc, hpc, lk,
    orchHist, pollHist, selVars, ingHist, dlFailed>>

\* The SIGINT handler: stopMonitoring(), closeConnection() and
\* killGameProcess() up to its taskkill; with no PID tracked the kill runs
\* to its end and the handler to process.exit(0).
Sigint ==
  /\ proc = "running"
  /\ kill["ext"].pc = "idle"
  /\ SetMon(stopMonitoring(Mon))
  /\ SetCli(closeConnection(Cli))
  /\ extClose' = TRUE
  /\ LET l1 == killGameProcess(La, "ext") IN
       /\ SetLa(l1)
       /\ proc' = IF l1.kill["ext"].pc = "taskkill" THEN "stopping" ELSE "exit0"
  /\ killRequested' = TRUE
  /\ kills' = 0
  /\ UNCHANGED sigFrame

\* The taskkill of the SIGINT handler is answered: the rest of
\* killGameProcess, then process.exit(0).
SigintKillDone ==
  /\ proc = "stopping"
  /\ kill["ext"].pc = "taskkill"
  /\ SetLa(KillAnswered(La, "ext"))
  /\ proc' = "exit0"
  /\ kills' = 0
  /\ UNCHANGED <<killRequested, cliVars, extClose, monVars, sigFrame>>

\* main() finds no helper binary at processManagerPath: process.exit(1).
MainAbort ==
  /\ proc = "running"
  /\ mainpc = "start"
  /\ proc' = "exit1"
  /\ UNCHANGED <<cliVars, extClose, monVars, launchVars, launchHist, sigFrame>>

\* The process has not exited.
Alive == proc \in {"running", "stopping"}

\* What a stage leaves alone when it hands over to the next one.
stageFrame == <<pollVars, mainpc, orchHist, pollHist, selVars, ingHist, proc, dlFailed>>

\* prepareGameFiles() returns or throws.
PrepareDone(h) ==
  /\ hpc[h] = "prepare"
  /\ \E ok \in BOOLEAN :
       IF ok
       THEN /\ hpc' = [hpc EXCEPT ![h] = "exchange"]
            /\ UNCHANGED <<lk, stageFrame, mmVars, mmHist, launchVars, launchHist>>
       ELSE Catch(h, "prepare", La, mmCall)

\* prepareGameFiles() returns after downloadFile caught the failure of its
\* download and returned false.
PrepareSwallowed(h) ==
  /\ hpc[h] = "prepare"
  /\ hpc' = [hpc EXCEPT ![h] = "exchange"]
  /\ dlFailed' = dlFailed \cup {h}
  /\ UNCHANGED <<lk, pollVars, mainpc, orchHist, pollHist, selVars, ingHist, proc,
                 mmVars, mmHist, launchVars, launchHist>>

\* auth.getExchangeCode() returns, and launchGame is called, or throws.
ExchangeDone(h) ==
  /\ hpc[h] = "exchange"
  /\ \E ok \in BOOLEAN :
       IF ok
       THEN /\ \E k \in Launches :
                 /\ lpc[k] = "idle"
                 /\ \A j \in Launches : j < k => lpc[j] # "idle"
                 /\ SetLa(LaunchBegin(La, k))
                 /\ lk' = [lk EXCEPT ![h] = k]
            /\ hpc' = [hpc EXCEPT ![h] = "launch"]
            /\ killRequested' = FALSE
            /\ kills' = 0
            /\ UNCHANGED <<stageFrame, mmVars, mmHist>>
       ELSE Catch(h, "exchange", La, mmCall)

\* launchGame has returned: the 20 s settle delay begins.
LaunchReturned(h) ==
  /\ hpc[h] = "launch" /\ lpc[lk[h]] = "returned"
  /\ hpc' = [hpc EXCEPT ![h] = "settle"]
  /\ UNCHANGED <<lk, stageFrame, mmVars, mmHist, launchVars, launchHist>>

\* launchGame has thrown.
LaunchThrew(h) ==
  /\ hpc[h] = "launch" /\ lpc[lk[h]] = "threw"
  /\ Catch(h, "launch", La, mmCall)

\* The 20 s settle delay is over: authenticateFortnite sends its request.
SettleDone(h) ==
  /\ hpc[h] = "settle"
  /\ hpc' = [hpc EXCEPT ![h] = "auth"]
  /\ UNCHANGED <<lk, stageFrame, mmVars, mmHist, launchVars, launchHist>>

\* authenticateFortnite returns, and startMatchmaking is called, or throws.
AuthDone(h) ==
  /\ hpc[h] = "auth"
  /\ \E ok \in BOOLEAN :
       IF ok
       THEN /\ StartMm
            /\ hpc' = [hpc EXCEPT ![h] = "matchmaking"]
            /\ UNCHANGED <<lk, stageFrame, launchVars, launchHist>>
       ELSE Catch(h, "auth", La, mmCall)

\* startMatchmaking has returned: the 5 s resume timer is set and
\* handleNewMatch returns.
MatchmakingReturned(h) ==
  /\ hpc[h] = "matchmaking" /\ mmCall = "returned"
  /\ hpc' = [hpc EXCEPT ![h] = "idle"]
  /\ resumeTimers' = resumeTimers + 1
  /\ UNCHANGED <<processedSessions, lastSessionId, monVars, inflight, delayTimers,
                 mainpc, lk, orchHist, pollHist, selVars, ingHist, proc, dlFailed, mmVars, mmHist,
                 launchVars, launchHist>>

\* startMatchmaking has thrown.
MatchmakingThrew(h) ==
  /\ hpc[h] = "matchmaking" /\ mmCall = "threw"
  /\ Catch(h, "matchmaking", La, "idle")

\* A stage of some invocation has returned or thrown and the continuation
\* of handleNewMatch has not run yet.
HandoffPending ==
  \E h \in Handlers :
    \/ hpc[h] = "launch" /\ lpc[lk[h]] \in {"returned", "threw"}
    \/ hpc[h] = "matchmaking" /\ mmCall \in {"returned", "threw"}

(***************************************************************************)
(* Initial states and specifications.                                      *)
(***************************************************************************)
\* The Servers object after its constructor.
InitPoll ==
  /\ processedSessions = {}
  /\ lastSessionId = NoId
  /\ isMonitoring = FALSE
  /\ intervals = 0
  /\ monitoringInterval = "null"
  /\ onNewServerCallback = FALSE
  /\ inflight = 0
  /\ resumeTimers = 0
  /\ delayTimers = 0
  /\ triggered = [i \in Ids |-> 0]
  /\ reoffered = {}
  /\ lastAnswer = "none"

InitOrch ==
  /\ mainpc = "start"
  /\ proc = "running"
  /\ dlFailed = {}
  /\ hpc = [h \in Handlers |-> "idle"]
  /\ lk = [h \in Handlers |-> 0]
  /\ failedAt = [h \in Handlers |-> "none"]
  /\ compOk = [h \in Handlers |-> FALSE]

InitSelIdle ==
  /\ selResp = [kind |-> "error", data |-> <<>>]
  /\ selProcessed = {}
  /\ selResult = <<>>
  /\ selDone = TRUE

\* The MatchmakingHandler object after its constructor.
InitMM ==
  /\ ws = "null"
  /\ isConnected = FALSE
  /\ ticketId = 0 /\ matchId = 0 /\ sessionId = 0
  /\ ticketData = FALSE
  /\ accountId = FALSE
  /\ accessToken = 0
  /\ connectionAttempts = 0
  /\ sessionPosted = FALSE
  /\ closePending = FALSE
  /\ retryTimers = 0
  /\ connTimeout = FALSE
  /\ wsFirst = FALSE
  /\ mmCall = "idle"
  /\ res = [r \in Resolutions |->
            [pc |-> "idle", cur |-> FALSE, auth |-> NoAuth, fauth |-> NoAuth]]
  /\ attempt = 0
  /\ fresh = TRUE
  /\ trig = 0 /\ posts = 0
  /\ anyFail = FALSE /\ extClose = FALSE
  /\ chainOpens = 0
  /\ overlap = FALSE
  /\ exhausted = FALSE
  /\ opened = FALSE
  /\ rawIn = <<>>
  /\ parsed = <<>>
  /\ anomalies = 0
  /\ frames = 0

\* The Launcher object after its constructor.
InitLaunch ==
  /\ gameProcess = 0
  /\ processManagerProcess = 0
  /\ autoTerminateTimeout = 0
  /\ processPending = FALSE
  /\ lpc = [k \in Launches |-> "idle"]
  /\ helper = [k \in Launches |-> "none"]
  /\ game = [k \in Launches |-> "none"]
  /\ sawPid = [k \in Launches |-> FALSE]
  /\ sawResult = [k \in Launches |-> FALSE]
  /\ tmo = [k \in Launches |-> FALSE]
  /\ prom = [k \in Launches |-> "pending"]
  /\ clk = [k \in Launches |-> 0]
  /\ wd = [k \in Launches |-> FALSE]
  /\ kill = [c \in Killers |-> [pc |-> "idle", pid |-> 0]]
  /\ commit = [k \in Launches |-> 0]
  /\ killRequested = FALSE
  /\ kills = 0

Init == InitPoll /\ InitOrch /\ InitSelIdle /\ InitMM /\ InitLaunch

Next ==
  \/ MainStart
  \/ ClearTick
  \/ PollTick
  \/ PollResponse
  \/ \E h \in Handlers : HandlerComplete(h)
  \/ \E h \in Handlers : HandlerCompensate(h)
  \/ ResumeTimerFire
  \/ DelayTimerFire

\* The poller with handleNewMatch reduced to its two exits.
Spec == Init /\ [][Next]_vars

InitSelect ==
  /\ InitPoll /\ InitOrch /\ InitMM /\ InitLaunch
  /\ selResp \in Responses(Sessions, MaxLen)
  /\ selProcessed \in SUBSET Ids
  /\ selResult = <<>>
  /\ selDone = FALSE

NextSelect == SelectCall

\* checkServers on every response and processed set within the bounds.
SpecSelect == InitSelect /\ [][NextSelect]_vars

NextConn ==
  \/ StartMatchmaking
  \/ TicketResponse
  \/ WsOpen
  \/ WsError
  \/ RetryTimerFire
  \/ ConnectTimeout
  \/ WsServerClose
  \/ WsCloseEvent
  \/ Compensate
  \/ CloseCall

\* The matchmaking client's connection: ticket, socket, retries, close.  No
\* frame is dispatched; what a resolution does to the connection is
\* CloseCall.
SpecConn == Init /\ [][NextConn]_vars

NextRes ==
  \/ StartMatchmaking
  \/ TicketResponse
  \/ WsOpen
  \/ ConnectTimeout
  \/ WsCloseEvent
  \/ WsMessage
  \/ \E r \in Resolutions : LookupDone(r)
  \/ \E r \in Resolutions : FallbackDone(r)
  \/ \E r \in Resolutions : PostDone(r)
  \/ \E r \in Resolutions : IsRunningDone(r)
  \/ \E r \in Resolutions : KillDone(r)
  \/ Compensate
  \/ EarlyCompensate

\* The matchmaking client's messages and session resolution, on a
\* transport that raises no error.
SpecRes == Init /\ [][NextRes]_vars

NextLaunch ==
  \/ \E k \in Launches : LaunchCall(k)
  \/ \E k \in Launches : WriteDone(k)
  \/ \E k \in Launches : GameSpawn(k)
  \/ \E k \in Launches : GameExit(k)
  \/ \E k \in Launches : StdoutResult(k)
  \/ \E k \in Launches : StdoutPid(k)
  \/ \E k \in Launches : HelperExit(k)
  \/ \E k \in Launches : HelperError(k)
  \/ \E k \in Launches : Tick5(k)
  \/ \E k \in Launches : QueryDone(k)
  \/ \E k \in Launches : Tick30(k)
  \/ \E k \in Launches : Tick40(k)
  \/ WatchdogKillDone
  \/ ExtKill
  \/ ExtKillDone

NextIngest ==
  \/ StartMatchmaking
  \/ TicketResponse
  \/ WsOpen
  \/ WsFrame

\* The matchmaking client receiving frames as text, while no lookup is
\* answered.
SpecIngest == Init /\ [][NextIngest]_vars

\* The launcher, its helpers and game processes, with launchGame and
\* killGameProcess called from outside.
SpecLaunch == Init /\ [][NextLaunch]_vars

\* The number of handleNewMatch invocations so far.
RECURSIVE SumTriggered(_)
SumTriggered(S) ==
  IF S = {} THEN 0
  ELSE LET i == CHOOSE j \in S : TRUE IN triggered[i] + SumTriggered(S \ {i})

\* The event loop in SpecOrch.  The continuations of handleNewMatch run
\* before the next task; a task is a step of the poller (no request sent
\* while one is in flight, none after MaxMatches invocations), of a stage
\* of handleNewMatch, of the launcher or of the matchmaking connection.
NextOrch ==
  \/ \E h \in Handlers : LaunchReturned(h)
  \/ \E h \in Handlers : LaunchThrew(h)
  \/ \E h \in Handlers : MatchmakingReturned(h)
  \/ \E h \in Handlers : MatchmakingThrew(h)
  \/ ~HandoffPending /\ MainStart
  \/ ~HandoffPending /\ inflight = 0 /\ SumTriggered(Ids) < MaxMatches /\ PollTick
  \/ ~HandoffPending /\ PollResponse
  \/ ~HandoffPending /\ ResumeTimerFire
  \/ ~HandoffPending /\ DelayTimerFire
  \/ ~HandoffPending /\ (\E h \in Handlers : PrepareDone(h))
  \/ ~HandoffPending /\ (\E h \in Handlers : ExchangeDone(h))
  \/ ~HandoffPending /\ (\E h \in Handlers : SettleDone(h))
  \/ ~HandoffPending /\ (\E h \in Handlers : AuthDone(h))
  \/ ~HandoffPending /\ (\E h \in Handlers : CatchKillDone(h))
  \/ ~HandoffPending /\ (\E k \in Launches : WriteDone(k))
  \/ ~HandoffPending /\ (\E k \in Launches : GameSpawn(k))
  \/ ~HandoffPending /\ (\E k \in Launches : GameExit(k))
  \/ ~HandoffPending /\ (\E k \in Launches : StdoutResult(k))
  \/ ~HandoffPending /\ (\E k \in Launches : StdoutPid(k))
  \/ ~HandoffPending /\ (\E k \in Launches : HelperExit(k))
  \/ ~HandoffPending /\ (\E k \in Launches : HelperError(k))
  \/ ~HandoffPending /\ (\E k \in Launches : Tick5(k))
  \/ ~HandoffPending /\ (\E k \in Launches : QueryDone(k))
  \/ ~HandoffPending /\ (\E k \in Launches : Tick30(k))
  \/ ~HandoffPending /\ (\E k \in Launches : Tick40(k))
  \/ ~HandoffPending /\ WatchdogKillDone
  \/ ~HandoffPending /\ TicketResponse
  \/ ~HandoffPending /\ WsOpen
  \/ ~HandoffPending /\ WsError
  \/ ~HandoffPending /\ RetryTimerFire
  \/ ~HandoffPending /\ ConnectTimeout
  \/ ~HandoffPending /\ WsServerClose
  \/ ~HandoffPending /\ WsCloseEvent

\* The event loop while no answer of the matchmaking service arrives: the
\* poller, the stages of handleNewMatch up to the ticket request and the
\* launcher, over as many invocations as there are launches.
NextRelaunch ==
  \/ \E h \in Handlers : LaunchReturned(h)
  \/ \E h \in Handlers : LaunchThrew(h)
  \/ ~HandoffPending /\ MainStart
  \/ ~HandoffPending /\ inflight = 0 /\ SumTriggered(Ids) < MaxLaunches /\ PollTick
  \/ ~HandoffPending /\ PollResponse
  \/ ~HandoffPending /\ DelayTimerFire
  \/ ~HandoffPending /\ (\E h \in Handlers : PrepareDone(h))
  \/ ~HandoffPending /\ (\E h \in Handlers : ExchangeDone(h))
  \/ ~HandoffPending /\ (\E h \in Handlers : SettleDone(h))
  \/ ~HandoffPending /\ (\E h \in Handlers : AuthDone(h))
  \/ ~HandoffPending /\ (\E h \in Handlers : CatchKillDone(h))
  \/ ~HandoffPending /\ (\E k \in Launches : WriteDone(k))
  \/ ~HandoffPending /\ (\E k \in Launches : GameSpawn(k))
  \/ ~HandoffPending /\ (\E k \in Launches : GameExit(k))
  \/ ~HandoffPending /\ (\E k \in Launches : StdoutResult(k))
  \/ ~HandoffPending /\ (\E k \in Launches : StdoutPid(k))
  \/ ~HandoffPending /\ (\E k \in Launches : HelperExit(k))
  \/ ~HandoffPending /\ (\E k \in Launches : HelperError(k))
  \/ ~HandoffPending /\ (\E k \in Launches : Tick5(k))
  \/ ~HandoffPending /\ (\E k \in Launches : QueryDone(k))
  \/ ~HandoffPending /\ (\E k \in Launches : Tick30(k))
  \/ ~HandoffPending /\ (\E k \in Launches : Tick40(k))
  \/ ~HandoffPending /\ WatchdogKillDone

\* The orchestrator relaunching: every behaviour of SpecRelaunch is a
\* behaviour of the program in which the matchmaking service stays silent.
SpecRelaunch == Init /\ [][NextRelaunch]_vars

\* The event loop of the process from its start to its exit: NextOrch
\* while the process lives, the SIGINT handler and the startup check.
NextShutdown ==
  \/ Alive /\ \E h \in Handlers : LaunchReturned(h)
  \/ Alive /\ \E h \in Handlers : LaunchThrew(h)
  \/ Alive /\ \E h \in Handlers : MatchmakingReturned(h)
  \/ Alive /\ \E h \in Handlers : MatchmakingThrew(h)
  \/ Alive /\ ~HandoffPending /\ MainStart
  \/ Alive /\ ~HandoffPending /\ inflight = 0 /\ SumTriggered(Ids) < MaxMatches /\ PollTick
  \/ Alive /\ ~HandoffPending /\ PollResponse
  \/ Alive /\ ~HandoffPending /\ ResumeTimerFire
  \/ Alive /\ ~HandoffPending /\ DelayTimerFire
  \/ Alive /\ ~HandoffPending /\ (\E h \in Handlers : PrepareDone(h))
  \/ Alive /\ ~HandoffPending /\ (\E h \in Handlers : ExchangeDone(h))
  \/ Alive /\ ~HandoffPending /\ (\E h \in Handlers : SettleDone(h))
  \/ Alive /\ ~HandoffPending /\ (\E h \in Handlers : AuthDone(h))
  \/ Alive /\ ~HandoffPending /\ (\E h \in Handlers : CatchKillDone(h))
  \/ Alive /\ ~HandoffPending /\ (\E k \in Launches : WriteDone(k))
  \/ Alive /\ ~HandoffPending /\ (\E k \in Launches : GameSpawn(k))
  \/ Alive /\ ~HandoffPending /\ (\E k \in Launches : GameExit(k))
  \/ Alive /\ ~HandoffPending /\ (\E k \in Launches : StdoutResult(k))
  \/ Alive /\ ~HandoffPending /\ (\E k \in Launches : StdoutPid(k))
  \/ Alive /\ ~HandoffPending /\ (\E k \in Launches : HelperExit(k))
  \/ Alive /\ ~HandoffPending /\ (\E k \in Launches : HelperError(k))
  \/ Alive /\ ~HandoffPending /\ (\E k \in Launches : Tick5(k))
  \/ Alive /\ ~HandoffPending /\ (\E k \in Launches : QueryDone(k))
  \/ Alive /\ ~HandoffPending /\ (\E k \in Launches : Tick30(k))
  \/ Alive /\ ~HandoffPending /\ (\E k \in Launches : Tick40(k))
  \/ Alive /\ ~HandoffPending /\ WatchdogKillDone
  \/ Alive /\ ~HandoffPending /\ TicketResponse
  \/ Alive /\ ~HandoffPending /\ WsOpen
  \/ Alive /\ ~HandoffPending /\ WsError
  \/ Alive /\ ~HandoffPending /\ RetryTimerFire
  \/ Alive /\ ~HandoffPending /\ ConnectTimeout
  \/ Alive /\ ~HandoffPending /\ WsServerClose
  \/ Alive /\ ~HandoffPending /\ WsCloseEvent
  \/ ~HandoffPending /\ Sigint
  \/ ~HandoffPending /\ SigintKillDone
  \/ MainAbort

\* NextOrch with the outcome of the download of prepareGameFiles told apart.
NextStages ==
  \/ NextOrch
  \/ ~HandoffPending /\ (\E h \in Handlers : PrepareSwallowed(h))

\* The orchestrator with the download of each invocation on record.
SpecStages == Init /\ [][NextStages]_vars

\* The orchestrator with its two exits.
SpecShutdown == Init /\ [][NextShutdown]_vars

\* The orchestrator: poller, handleNewMatch, launcher and matchmaking
\* connection together.
SpecOrch == Init /\ [][NextOrch]_vars

\* SpecOrch on an event loop that runs every continuation and every task
\* that stays ready: each request is answered, each armed timer fires.  What
\* the helper prints and what the socket does is left to the environment.
FairOrch ==
  /\ SpecOrch
  /\ \A h \in Handlers :
       /\ WF_vars(LaunchReturned(h)) /\ WF_vars(LaunchThrew(h))
       /\ WF_vars(MatchmakingReturned(h)) /\ WF_vars(MatchmakingThrew(h))
       /\ WF_vars(~HandoffPending /\ PrepareDone(h))
       /\ WF_vars(~HandoffPending /\ ExchangeDone(h))
       /\ WF_vars(~HandoffPending /\ SettleDone(h))
       /\ WF_vars(~HandoffPending /\ AuthDone(h))
       /\ WF_vars(~HandoffPending /\ CatchKillDone(h))
  /\ \A k \in Launches :
       /\ WF_vars(~HandoffPending /\ WriteDone(k))
       /\ WF_vars(~HandoffPending /\ Tick5(k))
       /\ WF_vars(~HandoffPending /\ QueryDone(k))
       /\ WF_vars(~HandoffPending /\ Tick30(k))
       /\ WF_vars(~HandoffPending /\ Tick40(k))
  /\ WF_vars(~HandoffPending /\ WatchdogKillDone)
  /\ WF_vars(~HandoffPending /\ TicketResponse)
  /\ WF_vars(~HandoffPending /\ ConnectTimeout)
  /\ WF_vars(~HandoffPending /\ RetryTimerFire)
  /\ WF_vars(~HandoffPending /\ ResumeTimerFire)
  /\ WF_vars(~HandoffPending /\ DelayTimerFire)

(***************************************************************************)
(* Claims about the poller.                                                *)
(***************************************************************************)
\* C1: between two clears of the processed-session set the new-session
\* callback is invoked at most once for any sessionId, whatever the ticks
\* and responses, overlapping requests included.
C1_AtMostOncePerClear == \A i \in Ids : triggered[i] <= 1

\* A session that triggered the callback was listed again, still eligible,
\* by a later response.
C1_Witness == \E i \in Ids : triggered[i] = 1 /\ i \in reoffered

\* The index of the first session of data that satisfies T, 0 if none does.
FirstIndex(data, T(_, _), processed) ==
  LET I == {i \in 1..Len(data) : T(data[i], processed)}
  IN  IF I = {} THEN 0 ELSE CHOOSE i \in I : \A j \in I : i <= j

\* The session the selection rule names for two tiers T1 and T2.
Selected(data, T1(_, _), T2(_, _), processed) ==
  LET i1 == FirstIndex(data, T1, processed)
      i2 == FirstIndex(data, T2, processed)
  IN  IF i1 # 0 THEN <<data[i1]>>
      ELSE IF i2 # 0 THEN <<data[i2]>>
      ELSE <<>>

\* The tiers as C2 words them: region, not processed, started / players.
ClaimedNotStarted(server, processed) ==
  /\ server.region = Region
  /\ server.sessionId \notin processed
  /\ server.started = FALSE

ClaimedInitializing(server, processed) ==
  /\ server.region = Region
  /\ server.sessionId \notin processed
  /\ server.started = TRUE
  /\ server.players = 0

\* The tiers with a sessionId required.
IdNotStarted(server, processed) ==
  server.sessionId # NoId /\ ClaimedNotStarted(server, processed)

IdInitializing(server, processed) ==
  server.sessionId # NoId /\ ClaimedInitializing(server, processed)

\* C2 as stated: checkServers returns the first session of the region that
\* is not processed and not started, else the first such session that is
\* started with no players, else null.
C2_Original ==
  selDone =>
    selResult =
      Selected(selResp.data, ClaimedNotStarted, ClaimedInitializing, selProcessed)

\* C2 amended: the same, among the sessions that carry a non-empty
\* sessionId.
C2_SelectionRule ==
  selDone =>
    selResult = Selected(selResp.data, IdNotStarted, IdInitializing, selProcessed)

\* A not-started session was returned although an eligible started session
\* with no players stands before it in the list.
C2_Witness ==
  /\ selDone
  /\ \E i, j \in 1..Len(selResp.data) :
       /\ i < j
       /\ IdInitializing(selResp.data[i], selProcessed)
       /\ IdNotStarted(selResp.data[j], selProcessed)
       /\ selResult = <<selResp.data[j]>>

\* C3: while an invocation of handleNewMatch is running the poller is not
\* monitoring and no poll interval is live.
C3_NoPollingDuringAttempt ==
  (\E h \in Handlers : hpc[h] # "idle") => (~isMonitoring /\ intervals = 0)

(***************************************************************************)
(* Claims about the matchmaking client.                                    *)
(***************************************************************************)
\* C4: within one matchmaking attempt at most one backend POST is sent,
\* however many resolution-triggering messages arrive and whenever they
\* arrive.
C4_OnePostPerAttempt == posts <= 1

\* No getSessionInfo invocation is running.
Settled == \A r \in Resolutions : res[r].pc = "idle"

\* C5: in every attempt, the first one and every later one started after
\* the connection was closed, in which one resolution-triggering message has
\* arrived and no lookup or POST has failed, once no resolution is running
\* while the session is still recorded, one backend POST has been sent for
\* the attempt.
C5_PostInEveryAttempt ==
  (fresh /\ trig = 1 /\ sessionId # 0 /\ ~anyFail /\ ~extClose /\ Settled)
    => posts = 1

\* A socket is opened by this step.
SocketOpened == connectionAttempts' = connectionAttempts + 1

\* C8: for one connect(), begun with no retry timer of an earlier connect
\* pending, at most maxConnectionAttempts sockets are opened in a row without
\* a successful open; a socket is opened only by the connect itself or by
\* the firing of a backoff timer; and once the error handler has given up no
\* timer is pending, so no further socket is opened.
C8_RetryBound ==
  /\ [](~overlap => chainOpens <= maxConnectionAttempts)
  /\ [][SocketOpened => (mmCall = "ticket" \/ retryTimers' = retryTimers - 1)]_vars
  /\ []((~overlap /\ exhausted /\ ws = "dead") => retryTimers = 0)

\* Three sockets in a row have failed since connect() and the error handler
\* has given up.
C8_Witness ==
  /\ ~overlap /\ ~opened /\ exhausted
  /\ chainOpens = maxConnectionAttempts
  /\ ws = "dead" /\ retryTimers = 0

\* C9: when the error handler has given up on an attempt none of whose
\* sockets opened, the startMatchmaking call has rejected: it is not still
\* pending.
C9_ExhaustionRejects == (exhausted /\ ~opened) => mmCall # "connect"

(***************************************************************************)
(* Claims about the launcher.                                              *)
(***************************************************************************)
\* C10: when a launch has returned and no other launch has followed it, no
\* kill has been requested from outside, 30 s have passed since the helper
\* was spawned and the watchdog callback has run to its end, then neither
\* the game process nor the helper of that launch is tracked or alive.
C10_WatchdogBound ==
  \A k \in Launches :
    (/\ lpc[k] = "returned"
     /\ \A j \in Launches : j > k => lpc[j] = "idle"
     /\ ~killRequested
     /\ clk[k] >= 2
     /\ kill["wd"].pc = "idle")
    => (/\ game[k] # "alive" /\ gameProcess # k
        /\ helper[k] # "alive" /\ processManagerProcess # k)

(***************************************************************************)
(* Claims about the orchestrator.                                          *)
(***************************************************************************)
\* The socket connect of the running startMatchmaking call has failed: the
\* error handler has given up and no socket of the call ever opened.
ConnectFailed == mmCall = "connect" /\ exhausted /\ ~opened

\* C6: a failure at any stage of handleNewMatch is compensated.  An
\* invocation that has ended after a failure left no game process and no
\* helper tracked, no watchdog armed, the matchmaking socket closed and the
\* delayed resume of the poller scheduled; and no invocation is still
\* waiting in startMatchmaking when its socket connect has failed.
C6_FailureCompensated ==
  \A h \in Handlers :
    /\ (hpc[h] = "idle" /\ failedAt[h] # "none") => compOk[h]
    /\ ~(hpc[h] = "matchmaking" /\ ConnectFailed)

\* C7: whenever an invocation of handleNewMatch is running, the poller is
\* eventually monitoring again.
C7_MonitoringResumes ==
  \A h \in Handlers : (hpc[h] # "idle") ~> isMonitoring

(***************************************************************************)
(* Claims about the launcher: killGameProcess.                             *)
(***************************************************************************)
\* The supervisor state killGameProcess leaves behind.
Cleared ==
  /\ gameProcess = 0 /\ processManagerProcess = 0
  /\ autoTerminateTimeout = 0 /\ ~processPending

\* C11: killGameProcess is idempotent.  When a call from outside has run to
\* its end and nothing has happened since, no game PID and no helper is
\* tracked, no watchdog is armed and no launch is pending; and a second call
\* that completes right after a first changes nothing in the launcher.  The
\* call has no exit by exception: kill[c] only ever returns to "idle".
C11_KillIdempotent ==
  /\ []((kills >= 1) => (Cleared /\ kill["ext"].pc = "idle"))
  /\ [][(kills >= 1 /\ kills' > kills) => UNCHANGED launchVars]_vars

\* Two calls have completed one right after the other, the first of them
\* on a game process that had already exited or been killed.
C11_Witness ==
  /\ kills = 2 /\ Cleared
  /\ \E k \in Launches : game[k] = "dead"

(***************************************************************************)
(* Claims about the launcher: launchGame.                                  *)
(***************************************************************************)
\* A PID-discovery signal of launch k is handled: its RESULT line, the
\* exit of its helper, or the answer to its process query.
Signal(k) == StdoutResult(k) \/ HelperExit(k) \/ QueryDone(k)

\* C12: within one launch the first PID-discovery signal wins.  When a
\* signal of launch k has committed a PID and that PID is the tracked one,
\* a later signal of the same launch leaves the tracked PID as it is.
C12_FirstWriterWins ==
  [][\A k \in Launches :
       (commit[k] # 0 /\ gameProcess = commit[k] /\ Signal(k))
       => gameProcess' = gameProcess]_vars

\* The helper of launch k has yielded no PID: no RESULT line, no PID
\* pattern in its output, and no PID is tracked.
NoPid(k) == gameProcess = 0 /\ ~sawPid[k] /\ ~sawResult[k]

C14_OneGameOneHelper ==
  /\ Cardinality({k \in Launches : game[k] = "alive"}) <= 1
  /\ Cardinality({k \in Launches : helper[k] = "alive"}) <= 1

(***************************************************************************)
(* Claims about handleWebSocketMessage.                                    *)
(***************************************************************************)
\* The last frame handled held the texts of two messages, one after the
\* other.
TwoObjects(a, b) == rawIn = Text(a) \o Text(b)

\* The last frame handled held the text of a message and then an object
\* cut off.
OneAndCut(a, c) == rawIn = Text(a) \o c

\* C15: a frame of two concatenated objects is dispatched as these two
\* messages in frame order; a frame of one object followed by a cut-off
\* object is dispatched as the one message, with one parse error logged.
C15_FragmentedFrames ==
  (frames > 0) =>
    /\ \A a, b \in WireMessages : TwoObjects(a, b) => parsed = <<a, b>>
    /\ \A a \in WireMessages : \A c \in Cuts :
         OneAndCut(a, c) => (parsed = <<a>> /\ anomalies = 1)

\* C16: a frame from which no message is parsed is reported, and handling
\* it changes nothing else: the socket, the connected flag, ticketId,
\* matchId, sessionId and sessionPosted stay as they are, no lookup is sent
\* and no POST.
C16_UnparseableFrame ==
  [][(frames' = frames + 1 /\ parsed' = <<>>)
     => (/\ anomalies' >= 1
         /\ UNCHANGED <<ws, isConnected, ticketId, matchId, sessionId,
                        sessionPosted, res, posts>>)]_vars

\* A frame without a parseable message was handled on an open socket
\* whose client holds a matchId and a sessionId.
C16_Witness ==
  /\ frames = 2 /\ parsed = <<>> /\ anomalies >= 1
  /\ ws = "open" /\ matchId # 0 /\ sessionId # 0

\* A resolution sends a lookup: its slot comes to wait for the answer to
\* the primary or to the fallback request.
IssuesLookup(r) ==
  res'[r].pc \in {"lookup", "fallback"} /\ res'[r].pc # res[r].pc

\* C17: a resolution sends its primary lookup when it starts, and a second
\* lookup, the fallback, only on a 401 answer to the primary one; the
\* fallback is never sent from any later point, so a resolution sends at
\* most two lookups.  Any other failure of the primary lookup, and a
\* failed fallback, end the resolution with no further lookup.
C17_FallbackOnlyOn401 ==
  /\ [][\A r \in Resolutions :
         IssuesLookup(r) =>
           \/ res[r].pc = "idle" /\ res'[r].pc = "lookup"
           \/ res[r].pc = "lookup" /\ res'[r].pc = "fallback" /\ LookupAnswer(r, "401")]_vars
  /\ [][\A r \in Resolutions : LookupAnswer(r, "401") => res'[r].pc = "fallback"]_vars
  /\ [][\A r \in Resolutions :
         (LookupAnswer(r, "error") \/ FallbackAnswer(r, FALSE))
           => (res'[r].pc = "idle" /\ \A q \in Resolutions : ~IssuesLookup(q))]_vars

\* A resolution waits for the answer to its fallback lookup.
C17_Witness == \E r \in Resolutions : res[r].pc = "fallback" /\ res[r].cur

\* C18: after a successful lookup the backend POST comes first and is sent
\* with a sessionId; closeConnection and the process query follow the
\* answer to the POST, and killGameProcess follows the process query.
C18_PostThenCloseThenKill ==
  [][\A r \in Resolutions :
       /\ (res'[r].pc = "post" /\ res[r].pc # "post") => sessionId # 0
       /\ (res'[r].pc = "isrun" /\ res[r].pc # "isrun") => res[r].pc = "post"
       /\ (res'[r].pc = "kill" /\ res[r].pc # "kill") => res[r].pc = "isrun"]_vars

\* The client holds no socket, no ticket with its service URL, no
\* ticketId, matchId or sessionId, and is not connected.
NoConnection ==
  /\ ws = "null" /\ ~isConnected /\ ~ticketData
  /\ ticketId = 0 /\ matchId = 0 /\ sessionId = 0

QuietAnswers == {"error", "nodata", "empty"}
QuietResponses ==
  {resp \in Responses(PollSessions, MaxPollLen) : AnswerKind(resp) \in QuietAnswers}

\* C20: a list-sessions request that fails, or is answered with an empty
\* or a non-array body, is handled to the end of the interval callback:
\* checkServers returns null, and the tick leaves processedSessions,
\* lastSessionId and the monitoring state as they are and calls no
\* handleNewMatch.
C20_QuietTick ==
  /\ [](\A resp \in QuietResponses : CheckServers(resp, processedSessions) = <<>>)
  /\ []((inflight > 0) => \A resp \in QuietResponses : ENABLED PollAnswer(resp))
  /\ [][(inflight' = inflight - 1 /\ lastAnswer' \in QuietAnswers)
         => UNCHANGED <<processedSessions, lastSessionId, monVars, hpc, orchHist,
                        triggered>>]_vars

\* A failed list-sessions request has been handled while the poller was
\* monitoring with a sessionId in its processed set.
C20_Witness ==
  lastAnswer = "error" /\ isMonitoring /\ intervals > 0 /\ processedSessions # {}

\* C21: when the process has exited with code 0 the poller is stopped with
\* no interval left, the matchmaking client holds no socket and the kill
\* of the SIGINT handler has run to its end; when it has exited with code
\* 1 main() had not started the poller and no request had been sent.
C21_ShutdownCompensates ==
  /\ (proc = "exit0") =>
       /\ ~isMonitoring /\ intervals = 0
       /\ ws = "null"
       /\ kill["ext"].pc = "idle" /\ gameProcess = 0
  /\ (proc = "exit1") => (mainpc = "start" /\ intervals = 0 /\ inflight = 0)

\* The stages of handleNewMatch in their order, and the stage that may
\* follow each.
StageAfter ==
  [prepare |-> "exchange", exchange |-> "launch", launch |-> "settle",
   settle |-> "auth", auth |-> "matchmaking", matchmaking |-> "idle"]
Stages == DOMAIN StageAfter

\* C22: an invocation moves from a stage only to the next stage of the
\* order or into its catch block; it is past prepareGameFiles only if the
\* download of that stage succeeded; and once it has entered its catch
\* block it runs no stage.
C22_StagesInOrder ==
  /\ [][\A h \in Handlers :
         (hpc[h] \in Stages /\ hpc'[h] # hpc[h])
           => hpc'[h] \in {StageAfter[hpc[h]], "killing", "idle"}]_vars
  /\ [](\A h \in Handlers :
         hpc[h] \in Stages \ {"prepare"} => h \notin dlFailed)
  /\ [](\A h \in Handlers : failedAt[h] # "none" => hpc[h] \notin Stages)

\* C23: at most one list-sessions request is in flight; a tick of the
\* interval that finds a request unanswered sends none.
C23_OnePollInFlight ==
  /\ [](inflight <= 1)
  /\ [][(inflight > 0) => (inflight' <= inflight)]_vars

\* C24: at the call of the new-session callback for a session, the id of
\* that session is in processedSessions, isMonitoring is false and no poll
\* interval is live.
C24_StoppedBeforeCallback ==
  [][\A i \in Ids :
       (triggered'[i] = triggered[i] + 1)
         => /\ i \in processedSessions' /\ lastSessionId' = i
            /\ ~isMonitoring' /\ intervals' = 0 /\ monitoringInterval' # "live"]_vars

\* The callback has just been called for the session claimed last, out
\* of a poll that was answered after monitoring had been resumed.
C24_Witness ==
  /\ \E h \in Handlers : hpc[h] = "prepare"
  /\ lastSessionId # NoId /\ triggered[lastSessionId] = 1
  /\ Cardinality(processedSessions) = 2
  /\ ~isMonitoring /\ intervals = 0

\* C25: a startMatchmaking call begins with connectionAttempts at 0; a
\* transport error of the first socket of the call is answered with a
\* backoff timer; and the error handler gives up on a call none of whose
\* sockets opened only after maxConnectionAttempts sockets in a row.
C25_FreshRetryBudget ==
  /\ []((mmCall = "ticket") => (connectionAttempts = 0))
  /\ [][(wsFirst /\ mmCall = "connect" /\ ws = "connecting" /\ ws' = "dead")
         => (retryTimers' = retryTimers + 1)]_vars
  /\ []((exhausted /\ ~overlap /\ ~opened) => (chainOpens = maxConnectionAttempts))

\* C26: after a frame that holds one message, a SessionAssignment with a
\* matchId has left matchId at the payload's matchId and sessionId at the
\* payload's sessionId, or at the matchId when the payload has none; a Play
\* has left the client with a sessionId.
C26_IdsRecorded ==
  (frames > 0 /\ Len(parsed) = 1) =>
    LET m == parsed[1] IN
    /\ (m.kind = "SessionAssignment" /\ m.mid # 0)
         => (matchId = m.mid /\ sessionId = IF m.sid # 0 THEN m.sid ELSE m.mid)
    /\ (m.kind = "Play") => (sessionId # 0)


\* C27: a frame holding one StatusUpdate of state Connecting or Waiting, or
\* one message of unrecognized name, leaves ticketId, matchId, sessionId,
\* the posted flag, the ticket and the socket as they were, starts no
\* lookup and sends no POST.
InertKinds == {"Connecting", "Waiting", "Unknown"}
C27_InertMessages ==
  [][(frames' = frames + 1 /\ Len(parsed') = 1 /\ parsed'[1].kind \in InertKinds)
       => UNCHANGED <<ticketId, matchId, sessionId, sessionPosted, ticketData, ws,
                      isConnected, res, posts, trig>>]_vars
C27_Witness ==
  /\ frames = 2 /\ Len(parsed) = 1 /\ parsed[1].kind \in InertKinds
  /\ matchId # 0 /\ sessionId # 0 /\ ws = "open"
  /\ \E r \in Resolutions : res[r].pc = "lookup"

\* C28: the fallback lookup sent after a 401 carries an authorization value
\* different from the one the primary lookup of the same getSessionInfo
\* call carried.
C28_DistinctAuthorization ==
  \A r \in Resolutions : (res[r].pc = "fallback") => (res[r].fauth # res[r].auth)

\* C29: once launchGame has returned a PID, the processPromise of that
\* launch is never rejected afterwards: neither by its 40 s timer nor by
\* the helper's exit or error event, whether or not killGameProcess has run
\* in between.
C29_NoLateRejection ==
  [][\A k \in Launches :
       (lpc[k] = "returned" /\ prom[k] # "rejected") => (prom'[k] # "rejected")]_vars

\* Every pending socket-retry timer was armed in an earlier attempt: this
\* attempt began with no socket, and the socket its connect() opened is
\* still connecting, so no error handler has run since the attempt began.
OldRetryTimersOnly ==
  fresh /\ mmCall = "connect" /\ wsFirst /\ ws = "connecting" /\ retryTimers > 0

\* C30: a timer armed during one attempt does not act on a later one.  A
\* socket-retry timer of an earlier attempt that fires during the connect
\* of a new attempt leaves the socket as it is and opens none; the 30 s
\* watchdog and the 40 s timeout of an earlier launch that fire after the
\* helper of a later launch was spawned leave the tracked game process, the
\* helper, the watchdog and every process as they are.
C30_OldTimersInert ==
  /\ [][(OldRetryTimersOnly /\ retryTimers' = retryTimers - 1)
          => (ws' = ws /\ connectionAttempts' = connectionAttempts
              /\ chainOpens' = chainOpens)]_vars
  /\ [][\A j \in Launches : \A k \in Launches :
          (j < k /\ helper[k] # "none" /\ (Tick30(j) \/ Tick40(j)))
          => UNCHANGED <<gameProcess, processManagerProcess, autoTerminateTimeout,
                         helper, game, wd, kill, ws>>]_vars

\* The ticket and session state of an attempt is gone: no ticket data and
\* service URL, no ticketId, matchId or sessionId.
TicketStateCleared ==
  ~ticketData /\ ticketId = 0 /\ matchId = 0 /\ sessionId = 0

\* C31: the ticket and session state is destroyed on disconnect and on
\* close.  After the close event of a socket that the transport has ended,
\* with no reconnection pending, and after a closeConnection() that dropped
\* the socket, ticket data, service URL, ticketId, matchId and sessionId
\* are all cleared.
C31_DestroyedOnDisconnect ==
  /\ [][(ws = "dead" /\ retryTimers = 0 /\ closePending /\ ~closePending')
          => TicketStateCleared']_vars
  /\ [][(ws # "null" /\ ws' = "null") => TicketStateCleared']_vars

\* The session resolution of slot r fails for good in this step: its
\* primary lookup fails with something other than a 401, or its fallback
\* lookup fails.
FailsForGood(r) == LookupAnswer(r, "error") \/ FallbackAnswer(r, FALSE)

\* C32: a session resolution that fails for good is fatal to the attempt
\* and is compensated.  The step in which it fails leaves the socket
\* closed, or leaves startMatchmaking rejected for the orchestrator's catch
\* block, or takes the call on to closeConnection and killGameProcess.
C32_FailureCompensated ==
  [][\A r \in Resolutions :
       FailsForGood(r)
       => (ws' = "null" \/ mmCall' = "threw" \/ res'[r].pc \in {"isrun", "kill"})]_vars

\* C33: one ticket request per matchmaking attempt.  A ticket request is
\* sent only by the step that begins an attempt, and by every such step
\* whose authData is accepted; the answer to it is never followed by a
\* second request; a socket-retry timer opens its socket with the ticket at
\* hand and sends no request; and when the request fails startMatchmaking
\* rejects with the socket, the attempt counter and the retry timers left
\* as they were.
C33_OneTicketRequest ==
  /\ [][(mmCall' = "ticket" /\ mmCall # "ticket") => (attempt' = attempt + 1)]_vars
  /\ [][(attempt' = attempt + 1) => (mmCall' \in {"ticket", "threw"})]_vars
  /\ [][(mmCall = "ticket" /\ mmCall' # "ticket") => (mmCall' \in {"connect", "threw"})]_vars
  /\ [][(retryTimers' = retryTimers - 1)
          => (mmCall' = mmCall /\ ticketData' = ticketData
              /\ (ticketData => (ws' = "connecting" /\ chainOpens' = chainOpens + 1)))]_vars
  /\ [][(mmCall = "ticket" /\ mmCall' = "threw")
          => UNCHANGED <<ws, ticketData, connectionAttempts, chainOpens, retryTimers>>]_vars
C33_Witness ==
  /\ attempt = 1 /\ mmCall = "connect" /\ ticketData
  /\ ~wsFirst /\ chainOpens = 2 /\ ws = "connecting" /\ connectionAttempts = 2

\* C34: at most one invocation of handleNewMatch is running at any time.
C34_OneAttemptActive ==
  Cardinality({h \in Handlers : hpc[h] # "idle"}) <= 1

\* C35: at most one poll interval timer is live, and one is live exactly
\* when isMonitoring is true, after any sequence of start, stop and resume
\* calls and timer firings; a step that begins and ends with monitoring
\* active, a startMonitoring while monitoring included, leaves the interval
\* and the registered callback as they are.
C35_OneInterval ==
  /\ [](intervals <= 1)
  /\ []((intervals = 1) <=> isMonitoring)
  /\ [](isMonitoring <=> (monitoringInterval = "live"))
  /\ [][(isMonitoring /\ isMonitoring')
          => UNCHANGED <<intervals, monitoringInterval, onNewServerCallback>>]_vars
C35_Witness ==
  /\ isMonitoring /\ intervals = 1 /\ monitoringInterval = "live"
  /\ processedSessions # {} /\ resumeTimers + delayTimers >= 1

\* C36: the PID launchGame returns was discovered by that launch.  When the
\* call returns the tracked PID at the end of its 5 s wait, a signal of this
\* launch has written that PID: it is not one left in this.gameProcess by
\* an earlier launch.
C36_ReturnsOwnPid ==
  [][\A k \in Launches :
       (lpc[k] = "wait" /\ lpc'[k] = "returned")
       => (commit[k] # 0 /\ gameProcess = commit[k])]_vars

\* C37: the messages of one frame are dispatched independently.  When a
\* frame holds two messages and the first has no payload object, so that
\* its handling fails, the second is dispatched as if it had arrived alone:
\* ticketId, matchId and sessionId end as its dispatch from the state before
\* the frame leaves them, and the socket stays as it was.
C37_IndependentDispatch ==
  [][(frames' = frames + 1 /\ Len(parsed') = 2 /\ ~HasPayload(parsed'[1]))
       => LET d == Dispatch([tid |-> ticketId, mid |-> matchId, sid |-> sessionId,
                             spawn |-> 0, trigs |-> 0, threw |-> FALSE], parsed'[2])
          IN  /\ ticketId' = d.tid /\ matchId' = d.mid /\ sessionId' = d.sid
              /\ ws' = ws]_vars

\* C38: a successful session lookup is followed by closeConnection and the
\* kill of a running game process whatever the answer to the backend POST.
\* A successful lookup takes the call to the POST or, with no sessionId
\* left, past it to closeConnection; the answer to the POST, 200 or not,
\* closes the socket and goes on to the process query, which is followed
\* by killGameProcess or the end of the call; and the posted flag turns
\* true only in the step of a POST answered with 200.
C38_CleanupWhateverThePost ==
  /\ [][\A r \in Resolutions :
          (LookupAnswer(r, "ok") \/ FallbackAnswer(r, TRUE))
          => (res'[r].pc \in {"post", "isrun"}
              /\ (res'[r].pc = "isrun" => ws' = "null"))]_vars
  /\ [][\A r \in Resolutions : \A ok \in BOOLEAN :
          PostAnswer(r, ok)
          => (ws' = "null" /\ ~ticketData' /\ res'[r].pc = "isrun"
              /\ sessionPosted' = (sessionPosted \/ ok))]_vars
  /\ [][\A r \in Resolutions :
          (res[r].pc = "post" /\ res'[r].pc # "post") => (res'[r].pc = "isrun")]_vars
  /\ [][\A r \in Resolutions :
          (res[r].pc = "isrun" /\ res'[r].pc # "isrun")
          => (res'[r].pc \in {"kill", "idle"})]_vars
  /\ [][(sessionPosted' /\ ~sessionPosted)
          => \E r \in Resolutions : PostAnswer(r, TRUE)]_vars
C38_Witness ==
  /\ trig = 1 /\ posts = 1 /\ anyFail /\ ~sessionPosted
  /\ ws = "null" /\ ~ticketData
  /\ \E r \in Resolutions : res[r].pc \in {"isrun", "kill"} /\ res[r].cur

\* C39: the 'exit' or 'error' event of the helper of an earlier launch
\* leaves the tracking state of a later launch alone.  Once the helper of
\* launch k has been spawned, such an event of a launch j < k changes
\* neither this.processManagerProcess, nor this.processPending, nor
\* this.gameProcess.
C39_OldHelperEventsInert ==
  [][\A j \in Launches : \A k \in Launches :
       (j < k /\ helper[k] # "none" /\ (HelperExit(j) \/ HelperError(j)))
       => UNCHANGED <<processManagerProcess, processPending, gameProcess>>]_vars
====
